---- MODULE Spec2Model ----
(***************************************************************************)
(* A model of the retrieval-augmentation pipeline of the knowledge         *)
(* assistant: the guardrails (src/src/guardrails.py), the LangGraph        *)
(* pipeline and its reranker (src/src/rag.py) and the chat sessions of the *)
(* Streamlit front end that calls it (src/app.py).                         *)
(*                                                                         *)
(* Text is a sequence of one-character strings, so that Python's           *)
(* substring test, str.lower, str.strip and re.search are computed on the  *)
(* characters.  Scores and thresholds are in tenths (0.5 is 5).            *)
(***************************************************************************)
EXTENDS Integers, Sequences, FiniteSets, TLC

\* ------------------------------------------------------------------ text

UpperCase ==
    <<"A","B","C","D","E","F","G","H","I","J","K","L","M",
      "N","O","P","Q","R","S","T","U","V","W","X","Y","Z">>

LowerCase ==
    <<"a","b","c","d","e","f","g","h","i","j","k","l","m",
      "n","o","p","q","r","s","t","u","v","w","x","y","z">>

\* str.lower on one character.
lower_char(c) ==
    IF \E i \in 1..Len(UpperCase) : UpperCase[i] = c
    THEN LowerCase[CHOOSE i \in 1..Len(UpperCase) : UpperCase[i] = c]
    ELSE c

\* str.lower.
lower(s) == [i \in 1..Len(s) |-> lower_char(s[i])]

\* The characters str.strip removes from both ends.
IsSpace(c) == c \in {" ", "\n", "\t"}

\* str.strip.
strip(s) ==
    LET keep == {i \in 1..Len(s) : ~IsSpace(s[i])}
    IN  IF keep = {} THEN <<>>
        ELSE LET first == CHOOSE i \in keep : \A j \in keep : i <= j
                 last  == CHOOSE i \in keep : \A j \in keep : j <= i
             IN  SubSeq(s, first, last)

\* sub occurs in s starting at position i.
OccursAt(s, sub, i) ==
    /\ i >= 1
    /\ i + Len(sub) - 1 <= Len(s)
    /\ \A k \in 1..Len(sub) : s[i + k - 1] = sub[k]

\* Python's "sub in s".
Contains(s, sub) == \E i \in 1..(Len(s) - Len(sub) + 1) : OccursAt(s, sub, i)

\* any(w in s for w in words), words a sequence of texts.
ContainsAny(s, words) == \E w \in 1..Len(words) : Contains(s, words[w])

\* str.replace(old, new) for single characters.
replace_char(s, old, new) == [i \in 1..Len(s) |-> IF s[i] = old THEN new ELSE s[i]]

\* '.' of a regex matches every character but the newline.
NoNewline(s, from, to) == \A i \in from..to : s[i] # "\n"

\* A pattern is a sequence of sets of literals, '.*' between consecutive
\* elements.  RestMatches: elements k.. of the pattern match s from position
\* from on, the gap before each literal holding no newline.
RECURSIVE RestMatches(_, _, _, _)
RestMatches(s, pattern, k, from) ==
    \/ k > Len(pattern)
    \/ \E lit \in pattern[k] :
          \E j \in from..(Len(s) - Len(lit) + 1) :
              /\ OccursAt(s, lit, j)
              /\ NoNewline(s, from, j - 1)
              /\ RestMatches(s, pattern, k + 1, j + Len(lit))

\* re.search(pattern, s): the pattern matches somewhere in s.
re_search(pattern, s) ==
    \E lit \in pattern[1] :
        \E i \in 1..(Len(s) - Len(lit) + 1) :
            /\ OccursAt(s, lit, i)
            /\ RestMatches(s, pattern, 2, i + Len(lit))

\* any(re.search(p, s) for p in patterns).
SearchAny(patterns, s) == \E p \in 1..Len(patterns) : re_search(patterns[p], s)

\* ------------------------------------------------------------ rule tables

\* TRIGGER_KEYWORDS, in the insertion order the dict iterates in.
TRIGGER_KEYWORDS ==
    <<
      [category |-> <<"v","i","o","l","e","n","c","e">>,
       keywords |-> <<
          <<"k","i","l","l">>,
          <<"m","u","r","d","e","r">>,
          <<"a","t","t","a","c","k">>,
          <<"b","o","m","b">>,
          <<"w","e","a","p","o","n">>,
          <<"g","u","n">>,
          <<"s","h","o","o","t">>,
          <<"s","t","a","b">> >>],
      [category |-> <<"h","a","c","k","i","n","g">>,
       keywords |-> <<
          <<"h","a","c","k">>,
          <<"e","x","p","l","o","i","t">>,
          <<"b","r","e","a","c","h">>,
          <<"p","h","i","s","h","i","n","g">>,
          <<"m","a","l","w","a","r","e">>,
          <<"v","i","r","u","s">>,
          <<"t","r","o","j","a","n">> >>],
      [category |-> <<"d","r","u","g","s">>,
       keywords |-> <<
          <<"m","e","t","h">>,
          <<"h","e","r","o","i","n">>,
          <<"c","o","c","a","i","n","e">>,
          <<"f","e","n","t","a","n","y","l">>,
          <<"s","y","n","t","h","e","s","i","z","e">>,
          <<"m","a","n","u","f","a","c","t","u","r","e">> >>],
      [category |-> <<"s","e","l","f","_","h","a","r","m">>,
       keywords |-> <<
          <<"s","u","i","c","i","d","e">>,
          <<"s","e","l","f","-","h","a","r","m">>,
          <<"o","v","e","r","d","o","s","e">>,
          <<"c","u","t","t","i","n","g">>,
          <<"s","t","a","r","v","a","t","i","o","n">> >>],
      [category |-> <<"i","l","l","e","g","a","l">>,
       keywords |-> <<
          <<"f","o","r","g","e","r","y">>,
          <<"c","o","u","n","t","e","r","f","e","i","t">>,
          <<"s","m","u","g","g","l","e">>,
          <<"t","r","a","f","f","i","c","k">>,
          <<"l","a","u","n","d","e","r">> >>],
      [category |-> <<"e","x","p","l","i","c","i","t">>,
       keywords |-> <<
          <<"p","o","r","n">>,
          <<"s","e","x">>,
          <<"n","u","d","e">>,
          <<"e","r","o","t","i","c">>,
          <<"f","e","t","i","s","h">>,
          <<"a","d","u","l","t"," ","c","o","n","t","e","n","t">> >>],
      [category |-> <<"h","a","t","e">>,
       keywords |-> <<
          <<"r","a","c","i","s","t">>,
          <<"s","e","x","i","s","t">>,
          <<"h","o","m","o","p","h","o","b","i","c">>,
          <<"t","r","a","n","s","p","h","o","b","i","c">>,
          <<"b","i","g","o","t">> >>]
    >>

\* SAFE_CONTEXTS.
SAFE_CONTEXTS ==
    <<
      <<"h","i","s","t","o","r","i","c","a","l">>,
      <<"e","d","u","c","a","t","i","o","n","a","l">>,
      <<"a","c","a","d","e","m","i","c">>,
      <<"r","e","s","e","a","r","c","h">>,
      <<"f","i","c","t","i","o","n">>,
      <<"l","i","t","e","r","a","t","u","r","e">>,
      <<"m","e","d","i","c","a","l"," ","s","t","u","d","y">>,
      <<"p","s","y","c","h","o","l","o","g","i","c","a","l"," ","r","e","s","e","a","r","c","h">>,
      <<"l","e","g","a","l"," ","a","n","a","l","y","s","i","s">>,
      <<"n","e","w","s"," ","r","e","p","o","r","t","i","n","g">> >>

\* bypass_patterns: each regex as its literals in order, '.*' between them; an optional trailing 's?' or '.*' matches the empty string.
bypass_patterns ==
    <<
      << {<<"h","o","w"," ","t","o">>},
         {<<"w","i","t","h","o","u","t"," ","g","e","t","t","i","n","g"," ","c","a","u","g","h","t">>} >>,
      << {<<"w","a","y","s"," ","t","o">>},
         {<<"i","l","l","e","g","a","l","l","y">>} >>,
      << {<<"s","e","c","r","e","t"," ","m","e","t","h","o","d">>} >>,
      << {<<"h","i","d","d","e","n"," ","t","e","c","h","n","i","q","u","e">>} >>,
      << {<<"b","y","p","a","s","s">>},
         {<<"r","e","s","t","r","i","c","t","i","o","n">>} >>,
      << {<<"c","i","r","c","u","m","v","e","n","t">>},
         {<<"l","a","w">>} >>
    >>

\* harmful_roleplay.
harmful_roleplay ==
    <<
      << {<<"p","r","e","t","e","n","d">>},
         {<<"k","i","l","l">>, <<"m","u","r","d","e","r">>, <<"a","t","t","a","c","k">>} >>,
      << {<<"r","o","l","e">>},
         {<<"p","l","a","y">>},
         {<<"c","r","i","m","i","n","a","l">>, <<"t","e","r","r","o","r","i","s","t">>, <<"h","a","c","k","e","r">>} >>,
      << {<<"a","c","t"," ","l","i","k","e">>},
         {<<"d","r","u","g"," ","d","e","a","l","e","r">>, <<"c","r","i","m","i","n","a","l">>} >>
    >>

\* sensitive_indicators; 'genocide|holocaust.*deny' is the two alternatives 'genocide' and 'holocaust.*deny'.
sensitive_indicators ==
    <<
      << {<<"c","h","i","l","d">>},
         {<<"a","b","u","s","e">>, <<"e","x","p","l","o","i","t","a","t","i","o","n">>, <<"p","o","r","n">>} >>,
      << {<<"m","i","n","o","r">>},
         {<<"s","e","x","u","a","l">>, <<"e","x","p","l","i","c","i","t">>} >>,
      << {<<"u","n","d","e","r","a","g","e">>},
         {<<"c","o","n","t","e","n","t">>, <<"m","a","t","e","r","i","a","l">>} >>,
      << {<<"g","e","n","o","c","i","d","e">>} >>,
      << {<<"h","o","l","o","c","a","u","s","t">>},
         {<<"d","e","n","y">>} >>,
      << {<<"c","o","n","s","p","i","r","a","c","y">>},
         {<<"g","o","v","e","r","n","m","e","n","t">>},
         {<<"c","o","n","t","r","o","l">>} >>
    >>

\* harmful_advice_patterns.
harmful_advice_patterns ==
    <<
      << {<<"h","e","r","e">>},
         {<<"s">>},
         {<<"h","o","w"," ","t","o">>},
         {<<"k","i","l","l">>, <<"m","u","r","d","e","r">>, <<"a","t","t","a","c","k">>, <<"h","a","c","k">>} >>,
      << {<<"s","t","e","p">>},
         {<<"b","y">>},
         {<<"s","t","e","p">>},
         {<<"b","o","m","b">>, <<"w","e","a","p","o","n">>, <<"d","r","u","g">>} >>,
      << {<<"f","o","l","l","o","w"," ","t","h","e","s","e"," ","s","t","e","p","s">>},
         {<<"i","l","l","e","g","a","l">>, <<"c","r","i","m","i","n","a","l">>} >>
    >>

\* The medical terms looked for in the original query.
medical_terms ==
    <<
      <<"m","e","d","i","c","a","l">>,
      <<"h","e","a","l","t","h">>,
      <<"d","i","s","e","a","s","e">>,
      <<"t","r","e","a","t","m","e","n","t">>,
      <<"c","u","r","e">> >>

\* medical_disclaimers.
medical_disclaimers ==
    <<
      <<"c","o","n","s","u","l","t"," ","a"," ","d","o","c","t","o","r">>,
      <<"p","r","o","f","e","s","s","i","o","n","a","l"," ","m","e","d","i","c","a","l"," ","a","d",
        "v","i","c","e">>,
      <<"n","o","t"," ","a"," ","s","u","b","s","t","i","t","u","t","e">> >>

ReasonDirectPrefix ==
    <<"Q","u","e","r","y"," ","c","o","n","t","a","i","n","s"," ","p","o","t","e","n","t","i","a",
    "l","l","y"," ","h","a","r","m","f","u","l"," ","c","o","n","t","e","n","t"," ","r","e","l",
    "a","t","e","d"," ","t","o"," ">>

ReasonBypass ==
    <<"Q","u","e","r","y"," ","a","p","p","e","a","r","s"," ","t","o"," ","a","t","t","e","m","p",
    "t"," ","b","y","p","a","s","s","i","n","g"," ","s","a","f","e","t","y"," ","r","e","s","t",
    "r","i","c","t","i","o","n","s"," ","o","r"," ","l","e","g","a","l"," ","b","o","u","n","d",
    "a","r","i","e","s">>

ReasonRoleplay ==
    <<"Q","u","e","r","y"," ","i","n","v","o","l","v","e","s"," ","r","o","l","e","-","p","l","a",
    "y","i","n","g"," ","h","a","r","m","f","u","l"," ","o","r"," ","i","l","l","e","g","a","l",
    " ","a","c","t","i","v","i","t","i","e","s">>

ReasonSensitive ==
    <<"Q","u","e","r","y"," ","i","n","v","o","l","v","e","s"," ","h","i","g","h","l","y"," ","s",
    "e","n","s","i","t","i","v","e"," ","t","o","p","i","c","s"," ","t","h","a","t"," ","r","e",
    "q","u","i","r","e"," ","s","p","e","c","i","a","l"," ","h","a","n","d","l","i","n","g">>

ReasonHarmfulResponse ==
    <<"R","e","s","p","o","n","s","e"," ","c","o","n","t","a","i","n","s"," ","a","c","t","i","o",
    "n","a","b","l","e"," ","h","a","r","m","f","u","l"," ","i","n","s","t","r","u","c","t","i",
    "o","n","s">>

ReasonMissingDisclaimer ==
    <<"M","e","d","i","c","a","l"," ","q","u","e","r","y"," ","r","e","s","p","o","n","s","e"," ",
    "l","a","c","k","s"," ","p","r","o","p","e","r"," ","d","i","s","c","l","a","i","m","e","r",
    "s">>

ReasonQuerySafe ==
    <<"Q","u","e","r","y"," ","a","p","p","e","a","r","s"," ","s","a","f","e">>

ReasonResponseSafe ==
    <<"R","e","s","p","o","n","s","e"," ","a","p","p","e","a","r","s"," ","s","a","f","e">>

ReasonNoDirect ==
    <<"N","o"," ","d","i","r","e","c","t"," ","v","i","o","l","a","t","i","o","n","s"," ","d","e",
    "t","e","c","t","e","d">>

ReasonNoContextual ==
    <<"N","o"," ","c","o","n","t","e","x","t","u","a","l"," ","v","i","o","l","a","t","i","o","n",
    "s"," ","d","e","t","e","c","t","e","d">>

ReasonNoSensitive ==
    <<"N","o"," ","s","e","n","s","i","t","i","v","e"," ","t","o","p","i","c","s"," ","d","e","t",
    "e","c","t","e","d">>

ReasonNoHarmful ==
    <<"N","o"," ","h","a","r","m","f","u","l"," ","c","o","n","t","e","n","t"," ","i","n"," ","r",
    "e","s","p","o","n","s","e">>

ReasonNoMisinfo ==
    <<"N","o"," ","m","i","s","i","n","f","o","r","m","a","t","i","o","n"," ","c","o","n","c","e",
    "r","n","s"," ","d","e","t","e","c","t","e","d">>

QueryRefusalPrefix ==
    <<"I"," ","c","a","n","n","o","t"," ","a","s","s","i","s","t"," ","w","i","t","h"," ","t","h",
    "i","s"," ","r","e","q","u","e","s","t","."," ">>

ResponseRefusalPrefix ==
    <<"I"," ","n","e","e","d"," ","t","o"," ","b","e"," ","c","a","r","e","f","u","l"," ","h","e",
    "r","e","."," ">>

GenerationErrorPrefix ==
    <<"E","r","r","o","r"," ","g","e","n","e","r","a","t","i","n","g"," ","a","n","s","w","e","r",
    ":"," ">>

ZombieQuery ==
    <<"H","o","w"," ","d","o"," ","I"," ","k","i","l","l"," ","a"," ","z","o","m","b","i","e"," ",
    "p","r","o","c","e","s","s"," ","i","n"," ","L","i","n","u","x","?">>

\* ------------------------------------------------------------- guardrails

\* _is_safe_context with all(...) where the code has any(...).
is_safe_context_all(q) == \A i \in 1..Len(SAFE_CONTEXTS) : Contains(lower(q), SAFE_CONTEXTS[i])

\* ContentGuardrails._is_safe_context.
is_safe_context(q) == ContainsAny(lower(q), SAFE_CONTEXTS)

\* The (category, keyword) index pairs of the trigger keywords that occur in q.
KeywordHits(q) ==
    UNION {{<<c, k>> : k \in {k \in 1..Len(TRIGGER_KEYWORDS[c].keywords) :
                                 Contains(q, TRIGGER_KEYWORDS[c].keywords[k])}} :
           c \in 1..Len(TRIGGER_KEYWORDS)}

\* The hit the nested loops reach first: the first category, then its first keyword.
FirstHit(hits) ==
    CHOOSE h \in hits :
        \A g \in hits : h[1] < g[1] \/ (h[1] = g[1] /\ h[2] <= g[2])

\* _check_direct_violations with the safe-context test inverted.
check_direct_violations_inverted(q) ==
    LET hits == KeywordHits(q)
    IN  IF hits # {} /\ is_safe_context(q)
        THEN LET h == FirstHit(hits)
                 category == TRIGGER_KEYWORDS[h[1]].category
             IN  [safe |-> FALSE,
                  reason |-> ReasonDirectPrefix \o replace_char(category, "_", " "),
                  category |-> category,
                  trigger_word |-> TRIGGER_KEYWORDS[h[1]].keywords[h[2]],
                  violation_type |-> "direct"]
        ELSE [safe |-> TRUE, reason |-> ReasonNoDirect]

\* ContentGuardrails._check_direct_violations.
check_direct_violations(q) ==
    LET hits == KeywordHits(q)
    IN  IF hits # {} /\ ~is_safe_context(q)
        THEN LET h == FirstHit(hits)
                 category == TRIGGER_KEYWORDS[h[1]].category
             IN  [safe |-> FALSE,
                  reason |-> ReasonDirectPrefix \o replace_char(category, "_", " "),
                  category |-> category,
                  trigger_word |-> TRIGGER_KEYWORDS[h[1]].keywords[h[2]],
                  violation_type |-> "direct"]
        ELSE [safe |-> TRUE, reason |-> ReasonNoDirect]

\* ContentGuardrails._check_contextual_violations.
check_contextual_violations(q) ==
    IF SearchAny(bypass_patterns, q)
    THEN [safe |-> FALSE, reason |-> ReasonBypass, violation_type |-> "bypass_attempt"]
    ELSE IF SearchAny(harmful_roleplay, q)
    THEN [safe |-> FALSE, reason |-> ReasonRoleplay, violation_type |-> "harmful_roleplay"]
    ELSE [safe |-> TRUE, reason |-> ReasonNoContextual]

\* _check_sensitive_topics made subject to the safe-context override.
check_sensitive_topics_overridable(q) ==
    IF SearchAny(sensitive_indicators, q) /\ ~is_safe_context(q)
    THEN [safe |-> FALSE, reason |-> ReasonSensitive, violation_type |-> "sensitive_topic"]
    ELSE [safe |-> TRUE, reason |-> ReasonNoSensitive]

\* ContentGuardrails._check_sensitive_topics.
check_sensitive_topics(q) ==
    IF SearchAny(sensitive_indicators, q)
    THEN [safe |-> FALSE, reason |-> ReasonSensitive, violation_type |-> "sensitive_topic"]
    ELSE [safe |-> TRUE, reason |-> ReasonNoSensitive]

\* ContentGuardrails.check_query_safety, called at time t.
check_query_safety(q, t) ==
    LET query_lower == strip(lower(q))
        violation_result == check_direct_violations(query_lower)
        context_result == check_contextual_violations(query_lower)
        sensitive_result == check_sensitive_topics(query_lower)
    IN  IF ~violation_result.safe
        THEN [is_safe |-> FALSE, reason |-> violation_result.reason,
              metadata |-> violation_result]
        ELSE IF ~context_result.safe
        THEN [is_safe |-> FALSE, reason |-> context_result.reason,
              metadata |-> context_result]
        ELSE IF ~sensitive_result.safe
        THEN [is_safe |-> FALSE, reason |-> sensitive_result.reason,
              metadata |-> sensitive_result]
        ELSE [is_safe |-> TRUE, reason |-> ReasonQuerySafe,
              metadata |-> [safe |-> TRUE, reason |-> ReasonQuerySafe,
                            categories_checked |->
                                <<"direct_violations", "contextual_violations",
                                  "sensitive_topics">>,
                            timestamp |-> t]]

\* _check_response_harmful_content made subject to the safe-context
\* override: a mutant that lets a response with a safe-context token pass.
check_response_harmful_content_overridable(response) ==
    IF SearchAny(harmful_advice_patterns, response) /\ ~is_safe_context(response)
    THEN [safe |-> FALSE, reason |-> ReasonHarmfulResponse,
          violation_type |-> "harmful_instructions"]
    ELSE [safe |-> TRUE, reason |-> ReasonNoHarmful]

\* ContentGuardrails._check_response_harmful_content.
check_response_harmful_content(response) ==
    IF SearchAny(harmful_advice_patterns, response)
    THEN [safe |-> FALSE, reason |-> ReasonHarmfulResponse,
          violation_type |-> "harmful_instructions"]
    ELSE [safe |-> TRUE, reason |-> ReasonNoHarmful]

\* _check_misinformation with the reason left out: a mutant whose verdict
\* carries an empty reason.
check_misinformation_unexplained(response, original_query) ==
    IF /\ ContainsAny(lower(original_query), medical_terms)
       /\ ~ContainsAny(lower(response), medical_disclaimers)
    THEN [safe |-> FALSE, reason |-> <<>>,
          violation_type |-> "missing_medical_disclaimer"]
    ELSE [safe |-> TRUE, reason |-> ReasonNoMisinfo]

\* ContentGuardrails._check_misinformation.
check_misinformation(response, original_query) ==
    IF /\ ContainsAny(lower(original_query), medical_terms)
       /\ ~ContainsAny(lower(response), medical_disclaimers)
    THEN [safe |-> FALSE, reason |-> ReasonMissingDisclaimer,
          violation_type |-> "missing_medical_disclaimer"]
    ELSE [safe |-> TRUE, reason |-> ReasonNoMisinfo]

\* ContentGuardrails.check_response_safety, called at time t.
check_response_safety(response, original_query, t) ==
    LET response_lower == strip(lower(response))
        harmful_result == check_response_harmful_content(response_lower)
        misinfo_result == check_misinformation(response_lower, original_query)
    IN  IF ~harmful_result.safe
        THEN [is_safe |-> FALSE, reason |-> harmful_result.reason,
              metadata |-> harmful_result]
        ELSE IF ~misinfo_result.safe
        THEN [is_safe |-> FALSE, reason |-> misinfo_result.reason,
              metadata |-> misinfo_result]
        ELSE [is_safe |-> TRUE, reason |-> ReasonResponseSafe,
              metadata |-> [safe |-> TRUE, reason |-> ReasonResponseSafe,
                            categories_checked |-> <<"harmful_content", "misinformation">>,
                            timestamp |-> t]]

\* check_query, the module-level wrapper.
check_query(q, t) == check_query_safety(q, t)

\* check_response, the module-level wrapper.
check_response(response, original_query, t) ==
    check_response_safety(response, original_query, t)

\* ------------------------------------------------------------------ state

VARIABLES
    now,               \* the clock datetime.now() reads
    settings,          \* config.settings: top_k_results and reranking_threshold
    query,             \* the query of the check or of the ask call in progress
    verdict,           \* what check_query returned for query
    response_verdict,  \* what check_response returned for the generated answer
    pc,                \* where the call in progress stands
    state,             \* the graph state dict threaded through the nodes
    scores,            \* what cross_encoder.predict returned in reranker_node
    calls,             \* the nodes run and the model calls made by the call in progress
    ret,               \* what ask_question gave its caller
    conversation_history,  \* the caller's list handed to ask_question
    graph_shares_state,    \* whether the graph hands its nodes the caller's list itself
    chat_sessions,     \* st.session_state.chat_sessions
    current_session,   \* st.session_state.current_session
    disk,              \* the files of chat_sessions/
    session_counter,   \* st.session_state.session_counter
    loaded,            \* what load_session gave and for which id, when it ran last
    last_save,         \* the id and record of the latest save_session call
    op,                \* the front end's handler that ran last, and its argument
    pipeline_instance, \* rag._pipeline_instance
    chat_model_cache,  \* what lru_cache holds for get_chat_model
    manager_cache,     \* what lru_cache holds for get_vectorstore_manager
    manager_vectorstore,  \* each VectorStoreManager's _vectorstore
    pipelines,         \* each RAGPipeline's llm and vectorstore
    built,             \* how many objects of each kind were constructed
    threads,           \* each thread's position in the getter it called, and its locals
    returned           \* what the getters gave their callers

vars ==
    <<now, settings, query, verdict, response_verdict, pc, state, scores, calls, ret,
      conversation_history, graph_shares_state, chat_sessions, current_session, disk,
      session_counter, loaded, last_save, op, pipeline_instance, chat_model_cache,
      manager_cache, manager_vectorstore, pipelines, built, threads, returned>>

\* The front end's variables.
appVars == <<chat_sessions, current_session, disk, session_counter, loaded, last_save, op>>

\* The variables of ask_question and of the nodes.
askVars ==
    <<now, settings, query, verdict, response_verdict, pc, state, scores, calls, ret,
      conversation_history, graph_shares_state>>

\* The shared instances and the threads that get them.
singletonVars ==
    <<pipeline_instance, chat_model_cache, manager_cache, manager_vectorstore, pipelines,
      built, threads, returned>>

\* The value of a variable that holds nothing yet.
None == [none |-> TRUE]

\* Python's None where a text is expected.
NoneText == <<"None">>

\* Settings: reranking_threshold and top_k_results as config.py sets them.
DefaultThreshold == 5

DefaultTopK == 5

\* GraphState as RAGPipeline.invoke builds it.
InitialState(q, history) ==
    [query |-> q, memory |-> history, vector_results |-> <<>>,
     reranked_results |-> <<>>, answer |-> <<>>, intent |-> "",
     confidence |-> 0, error |-> NoneText]

NoCalls == [nodes |-> <<>>, predict |-> 0, llm |-> 0, prompt |-> "", raised |-> {}]

\* The threads that call the getters, and the calls each makes.
MaxThreads == 2

MaxCalls == 2

Threads == 1..MaxThreads

\* None where an instance is expected; the instances of a kind are numbered
\* from 1 in the order they are constructed.
NoInstance == 0

\* A thread that is in no getter.
IdleThread(n) ==
    [pc |-> "idle", entry |-> "", llm |-> NoInstance, manager |-> NoInstance,
     vectorstore |-> NoInstance, vs |-> NoInstance, pipeline |-> NoInstance, calls |-> n]

\* The module globals and caches as the imports leave them.
NoSingletons ==
    /\ pipeline_instance = NoInstance
    /\ chat_model_cache = NoInstance
    /\ manager_cache = NoInstance
    /\ manager_vectorstore = <<>>
    /\ pipelines = <<>>
    /\ built = [pipeline |-> 0, chat_model |-> 0, manager |-> 0, vectorstore |-> 0]
    /\ threads = [t \in Threads |-> IdleThread(0)]
    /\ returned = {}

\* The globals and caches once one get_pipeline() call has built the
\* pipeline, as they are while ask_question runs.
SingletonsBuilt ==
    /\ pipeline_instance = 1
    /\ chat_model_cache = 1
    /\ manager_cache = 1
    /\ manager_vectorstore = <<1>>
    /\ pipelines = <<[llm |-> 1, vectorstore |-> 1]>>
    /\ built = [pipeline |-> 1, chat_model |-> 1, manager |-> 1, vectorstore |-> 1]
    /\ threads = [t \in Threads |-> IdleThread(0)]
    /\ returned = {}

\* ------------------------------------------------------------- the nodes

\* str(e) of the exceptions the model calls raise.
PredictError == <<"p","r","e","d","i","c","t"," ","f","a","i","l","e","d">>

ValueError ==
    <<"t","r","u","t","h"," ","v","a","l","u","e"," ","o","f"," ","a","n"," ",
      "a","r","r","a","y"," ","i","s"," ","a","m","b","i","g","u","o","u","s">>

\* zip(results, scores).
zip(results, values) == [i \in 1..Len(results) |-> <<results[i], values[i]>>]

\* One pair put into a list sorted by descending score, before the first
\* pair of a strictly smaller score: a mutant that puts it before the first
\* pair of a smaller or equal score, which reverses ties.
RECURSIVE InsertDescUnstable(_, _)
InsertDescUnstable(ranked, x) ==
    IF ranked = <<>> THEN <<x>>
    ELSE IF Head(ranked)[2] > x[2]
    THEN <<Head(ranked)>> \o InsertDescUnstable(Tail(ranked), x)
    ELSE <<x>> \o ranked

\* One pair put into a list sorted by descending score, after every pair of
\* a greater or equal score.
RECURSIVE InsertDesc(_, _)
InsertDesc(ranked, x) ==
    IF ranked = <<>> THEN <<x>>
    ELSE IF Head(ranked)[2] >= x[2]
    THEN <<Head(ranked)>> \o InsertDesc(Tail(ranked), x)
    ELSE <<x>> \o ranked

\* sorted(pairs, key=lambda x: x[1])[::-1]: a mutant that sorts ascending and
\* reverses, which puts equal scores in reverse retrieval order.
RECURSIVE sorted_then_reversed(_)
sorted_then_reversed(pairs) ==
    IF pairs = <<>> THEN <<>>
    ELSE InsertDescUnstable(sorted_then_reversed(SubSeq(pairs, 1, Len(pairs) - 1)),
                            pairs[Len(pairs)])

\* sorted(pairs, key=lambda x: x[1], reverse=True): Python's sort is stable,
\* also with reverse=True.
RECURSIVE sorted_desc(_)
sorted_desc(pairs) ==
    IF pairs = <<>> THEN <<>>
    ELSE InsertDesc(sorted_desc(SubSeq(pairs, 1, Len(pairs) - 1)), pairs[Len(pairs)])

\* [doc for doc, score in ranked if score >= threshold].
RECURSIVE above_threshold(_, _)
above_threshold(ranked, threshold) ==
    IF ranked = <<>> THEN <<>>
    ELSE IF Head(ranked)[2] >= threshold
    THEN <<Head(ranked)[1]>> \o above_threshold(Tail(ranked), threshold)
    ELSE above_threshold(Tail(ranked), threshold)

\* s[:n].
Take(s, n) == SubSeq(s, 1, IF Len(s) < n THEN Len(s) ELSE n)

\* "if not results" fails, so the node goes on to score: a mutant that
\* scores an empty candidate list too.
scores_candidates_always(results) == TRUE

\* Whether reranker_node goes past its "if not results: return".
scores_candidates(results) == results # <<>>

\* bool(scores) in "float(scores[0]) if scores else 0.0": a list is true when
\* non-empty; a numpy array of one element has that element's truth value,
\* an empty array is false, and an array of more elements raises ValueError.
scores_truth(out) ==
    IF out.kind = "list" THEN
        IF Len(out.values) > 0 THEN "true" ELSE "false"
    ELSE IF Len(out.values) = 0 THEN "false"
    ELSE IF Len(out.values) = 1 THEN (IF out.values[1] # 0 THEN "true" ELSE "false")
    ELSE "raises"

\* RAGPipeline.reranker_node.  out is what cross_encoder.predict did:
\* whether it raised and, if not, the scores and the kind of sequence holding them.
reranker_node(st, cfg, out) ==
    LET results == st.vector_results
    IN  IF ~scores_candidates(results)
        THEN [st EXCEPT !.reranked_results = <<>>]
        ELSE IF out.raised
        THEN [st EXCEPT !.error = PredictError]
        ELSE LET ranked == sorted_desc(zip(results, out.values))
                 reranked == Take(above_threshold(ranked, cfg.reranking_threshold),
                                  cfg.top_k_results)
                 st1 == [st EXCEPT !.reranked_results = reranked]
                 truth == scores_truth(out)
             IN  IF truth = "raises" THEN [st1 EXCEPT !.error = ValueError]
                 ELSE [st1 EXCEPT !.confidence =
                                      IF truth = "true" THEN out.values[1] ELSE 0]

\* What cross_encoder.predict can do for n pairs with scores drawn from S.
PredictOutcomes(n, S) ==
    {[raised |-> TRUE, kind |-> "list", values |-> <<>>]}
    \cup {[raised |-> FALSE, kind |-> k, values |-> v] :
              k \in {"list", "ndarray"}, v \in [1..n -> S]}

\* The reranker node runs, with the scores drawn from S.
RerankerNode(S) ==
    /\ pc = "reranker"
    /\ \E out \in PredictOutcomes(Len(state.vector_results), S) :
          LET called == scores_candidates(state.vector_results)
          IN  /\ state' = reranker_node(state, settings, out)
              /\ scores' = IF called THEN out ELSE None
              /\ calls' = [calls EXCEPT
                              !.nodes = Append(@, "reranker"),
                              !.predict = IF called THEN @ + 1 ELSE @,
                              !.raised = IF called /\ out.raised
                                         THEN @ \cup {"reranker"} ELSE @]
    /\ pc' = "answer_generator"
    /\ UNCHANGED <<now, settings, query, verdict, response_verdict, ret,
                   conversation_history, graph_shares_state, appVars, singletonVars>>

\* The score predict gave document d when it scored the list cands.
score_of(cands, values, d) == values[CHOOSE i \in 1..Len(cands) : cands[i] = d]

\* The reranker node runs a second time on the state its first run left:
\* on the same candidates with the same predict outcome ("same"), or on its
\* own result list, each document scored as before ("result").
RerankAgain ==
    /\ pc = "answer_generator"
    /\ \E mode \in {"same", "result"} :
          LET cands == IF mode = "same" THEN state.vector_results
                       ELSE state.reranked_results
              called == scores_candidates(cands)
              out == IF scores = None \/ ~called
                     THEN [raised |-> FALSE, kind |-> "list", values |-> <<>>]
                     ELSE IF mode = "same" \/ scores.raised THEN scores
                     ELSE [raised |-> FALSE, kind |-> scores.kind,
                           values |-> [n \in 1..Len(cands) |->
                                          score_of(state.vector_results, scores.values,
                                                   cands[n])]]
          IN  /\ state' = reranker_node([state EXCEPT !.vector_results = cands],
                                        settings, out)
              /\ scores' = IF called THEN out ELSE None
              /\ calls' = [calls EXCEPT
                              !.nodes = Append(@, "reranker"),
                              !.predict = IF called THEN @ + 1 ELSE @,
                              !.raised = IF called /\ out.raised
                                         THEN @ \cup {"reranker"} ELSE @]
    /\ pc' = "reranked_again"
    /\ UNCHANGED <<now, settings, query, verdict, response_verdict, ret,
                   conversation_history, graph_shares_state, appVars, singletonVars>>

\* The keyword groups of intent_classifier, in the order it tests them.
search_words ==
    <<
      <<"s","e","a","r","c","h">>,
      <<"f","i","n","d">>,
      <<"l","o","o","k"," ","f","o","r">> >>

coding_words ==
    <<
      <<"c","o","d","e">>,
      <<"d","e","b","u","g">>,
      <<"f","i","x">>,
      <<"i","m","p","l","e","m","e","n","t">> >>

explanation_words ==
    <<
      <<"e","x","p","l","a","i","n">>,
      <<"h","e","l","p">>,
      <<"h","o","w">>,
      <<"w","h","y">> >>

RetrievalError ==
    <<"s","t","o","r","e"," ","u","n","a","v","a","i","l","a","b","l","e">>

GenerationError ==
    <<"r","e","q","u","e","s","t"," ","t","i","m","e","d"," ","o","u","t">>

ExplainQuery ==
    <<"E","x","p","l","a","i","n"," ","s","o","r","t","i","n","g">>

HealthQuery ==
    <<"h","e","a","l","t","h"," ","t","i","p","s">>

PlainAnswer ==
    <<"U","s","e"," ","a"," ","s","t","a","b","l","e"," ","s","o","r","t",".">>

HarmfulAnswer ==
    <<"S","t","e","p"," ","b","y"," ","s","t","e","p",":"," ","b","u","i","l","d"," ","a"," ","b",
    "o","m","b",".">>

DisclaimerAnswer ==
    <<"R","e","s","t","."," ","T","h","i","s"," ","i","s"," ","n","o","t"," ","a"," ","s","u","b",
    "s","t","i","t","u","t","e"," ","f","o","r"," ","a"," ","d","o","c","t","o","r",".">>

\* RAGPipeline.intent_classifier: the intent of a query.
classify_intent(q) ==
    IF ContainsAny(lower(q), search_words) THEN "search"
    ELSE IF ContainsAny(lower(q), coding_words) THEN "coding"
    ELSE IF ContainsAny(lower(q), explanation_words) THEN "explanation"
    ELSE "general"

\* RAGPipeline.intent_classifier.
intent_classifier(st) == [st EXCEPT !.intent = classify_intent(st.query)]

\* RAGPipeline.vector_rag_node.  out is what the retriever did.
vector_rag_node(st, out) ==
    IF out.raised THEN [st EXCEPT !.error = RetrievalError]
    ELSE [st EXCEPT !.vector_results = out.docs]

\* doc.page_content: the text of a chunk, never empty.
page_content(doc) == <<"c","h","u","n","k">>

\* "\n".join(texts).
RECURSIVE join_lines(_)
join_lines(texts) ==
    IF texts = <<>> THEN <<>>
    ELSE IF Len(texts) = 1 THEN texts[1]
    ELSE texts[1] \o <<"\n">> \o join_lines(Tail(texts))

\* "if docs is not None" for "if context": a mutant that takes the grounded
\* prompt whatever the context holds.
prompt_kind_unconditional(docs) == "grounded"

\* The prompt answer_generator_node builds: grounded in the context when
\* the context is not empty.
prompt_kind(docs) ==
    IF join_lines([i \in 1..Len(docs) |-> page_content(docs[i])]) # <<>>
    THEN "grounded" ELSE "ungrounded"

\* answer_generator_node with the assignment to state["answer"] left out of
\* its except clause: a mutant that leaves the answer empty when the model
\* call fails.
answer_generator_node_silent(st, out) ==
    IF out.raised
    THEN [st EXCEPT !.error = out.text]
    ELSE [st EXCEPT !.answer = out.text]

\* RAGPipeline.answer_generator_node.  out is what llm.invoke did.
answer_generator_node(st, out) ==
    IF out.raised
    THEN [st EXCEPT !.answer = GenerationErrorPrefix \o out.text, !.error = out.text]
    ELSE [st EXCEPT !.answer = out.text]

\* The exchanges memory_update_node keeps.
MemoryCap == 20

\* s[-n:].
LastN(s, n) == IF Len(s) <= n THEN s ELSE SubSeq(s, Len(s) - n + 1, Len(s))

\* The exchange memory_update_node appends.
exchange_of(st) ==
    [query |-> st.query, answer |-> st.answer, intent |-> st.intent,
     confidence |-> st.confidence]

\* RAGPipeline.memory_update_node.
memory_update_node(st) ==
    [st EXCEPT !.memory = LastN(Append(st.memory, exchange_of(st)), MemoryCap)]

\* What ask_question gives its caller: a pair, or the exception it lets through.
Returned(answer, sources) == [kind |-> "returned", answer |-> answer, sources |-> sources]

Raised == [kind |-> "raised", answer |-> <<>>, sources |-> <<>>]

\* RAGPipeline.invoke without its safety gate on the query.
invoke_start_ungated(q, history, t) ==
    [verdict |-> check_query(q, t), pc |-> "intent_classifier", ret |-> None,
     state |-> InitialState(q, history)]

\* RAGPipeline.invoke up to the graph: the safety gate on the query, then the
\* initial state.
invoke_start(q, history, t) ==
    LET v == check_query(q, t)
    IN  IF ~v.is_safe
        THEN [verdict |-> v, pc |-> "done",
              ret |-> Returned(QueryRefusalPrefix \o v.reason, <<>>), state |-> None]
        ELSE [verdict |-> v, pc |-> "intent_classifier", ret |-> None,
              state |-> InitialState(q, history)]

\* RAGPipeline.invoke after the graph: the safety gate on the answer, and the
\* pair returned.
invoke_finish(st, q, t) ==
    LET v == check_response(st.answer, q, t)
        answer == IF ~v.is_safe THEN ResponseRefusalPrefix \o v.reason ELSE st.answer
    IN  [response_verdict |-> v, ret |-> Returned(answer, st.reranked_results)]

\* The nodes of the graph, in the order of its edges.
GraphNodes ==
    {"intent_classifier", "vector_rag", "reranker", "answer_generator", "memory_update"}

\* ask_question(q, history) is called and runs up to the graph.
Ask(q, history) ==
    /\ pc \in {"idle", "done"}
    /\ \E r \in {invoke_start(q, history, now)} :
           /\ verdict' = r.verdict
           /\ pc' = r.pc
           /\ ret' = r.ret
           /\ state' = r.state
    /\ query' = q
    /\ conversation_history' = history
    /\ response_verdict' = None
    /\ scores' = None
    /\ calls' = NoCalls
    /\ UNCHANGED <<now, settings, graph_shares_state, appVars, singletonVars>>

\* The intent classifier node runs.
IntentClassifier ==
    /\ pc = "intent_classifier"
    /\ state' = intent_classifier(state)
    /\ calls' = [calls EXCEPT !.nodes = Append(@, "intent_classifier")]
    /\ pc' = "vector_rag"
    /\ UNCHANGED <<now, settings, query, verdict, response_verdict, scores, ret,
                   conversation_history, graph_shares_state, appVars, singletonVars>>

\* What the retriever can do when at most n documents match.
RetrievalOutcomes(n) ==
    {[raised |-> TRUE, docs |-> <<>>]}
    \cup {[raised |-> FALSE, docs |-> [i \in 1..m |-> m + 1 - i]] :
              m \in 0..(IF n < settings.top_k_results THEN n ELSE settings.top_k_results)}

\* The retrieval node runs, the retriever doing one of outs.
VectorRagNode(outs) ==
    /\ pc = "vector_rag"
    /\ \E out \in outs :
          /\ state' = vector_rag_node(state, out)
          /\ calls' = [calls EXCEPT
                          !.nodes = Append(@, "vector_rag"),
                          !.raised = IF out.raised THEN @ \cup {"vector_rag"} ELSE @]
    /\ pc' = "reranker"
    /\ UNCHANGED <<now, settings, query, verdict, response_verdict, scores, ret,
                   conversation_history, graph_shares_state, appVars, singletonVars>>

\* What llm.invoke can do: raise, or give one of the answers.
LLMOutcomes(answers) ==
    {[raised |-> TRUE, text |-> GenerationError]}
    \cup {[raised |-> FALSE, text |-> a] : a \in answers}

\* The answer generator node runs, the model doing one of outs.
AnswerGeneratorNode(outs) ==
    /\ pc = "answer_generator"
    /\ \E out \in outs :
          /\ state' = answer_generator_node(state, out)
          /\ calls' = [calls EXCEPT
                          !.nodes = Append(@, "answer_generator"),
                          !.llm = @ + 1,
                          !.prompt = prompt_kind(state.reranked_results),
                          !.raised = IF out.raised THEN @ \cup {"answer_generator"} ELSE @]
    /\ pc' = "memory_update"
    /\ UNCHANGED <<now, settings, query, verdict, response_verdict, scores, ret,
                   conversation_history, graph_shares_state, appVars, singletonVars>>

\* The list memory_update_node appends to is the caller's own list: the
\* graph handed it over as it was, and "conversation_history or []" kept it.
MemoryIsCallersList == graph_shares_state /\ conversation_history # <<>>

\* The memory update node runs.  Its append lands in the caller's list when
\* the two are one object; a session whose messages are that list shows it.
MemoryUpdateNode ==
    /\ pc = "memory_update"
    /\ state' = memory_update_node(state)
    /\ calls' = [calls EXCEPT !.nodes = Append(@, "memory_update")]
    /\ conversation_history' =
           IF MemoryIsCallersList
           THEN Append(conversation_history, exchange_of(state))
           ELSE conversation_history
    /\ chat_sessions' =
           IF MemoryIsCallersList /\ current_session \in DOMAIN chat_sessions
           THEN [chat_sessions EXCEPT
                    ![current_session].messages = Append(@, exchange_of(state))]
           ELSE chat_sessions
    /\ pc' = "check_response"
    /\ UNCHANGED <<singletonVars, now, settings, query, verdict, response_verdict, scores, ret,
                   graph_shares_state, current_session, disk, session_counter, loaded,
                   last_save, op>>

\* graph.invoke itself raises while a node is due: invoke's handler logs the
\* exception and raises it again, and ask_question lets it through.
GraphRaises ==
    /\ pc \in GraphNodes
    /\ ret' = Raised
    /\ calls' = [calls EXCEPT !.raised = @ \cup {"graph"}]
    /\ pc' = "done"
    /\ UNCHANGED <<now, settings, query, verdict, response_verdict, state, scores,
                   conversation_history, graph_shares_state, appVars, singletonVars>>

\* The graph has ended: invoke checks the answer and returns.
CheckResponse ==
    /\ pc = "check_response"
    /\ \E r \in {invoke_finish(state, query, now)} :
           /\ response_verdict' = r.response_verdict
           /\ ret' = r.ret
    /\ pc' = "done"
    /\ UNCHANGED <<now, settings, query, verdict, state, scores, calls,
                   conversation_history, graph_shares_state, appVars, singletonVars>>

\* ------------------------------------------------------------ the sessions

\* datetime.isoformat and datetime.fromisoformat.
isoformat(t) == <<"iso", t>>

fromisoformat(text) == text[2]

\* json.dump raises TypeError on the Document objects a message's sources hold.
json_serializable(session_data) ==
    \A i \in 1..Len(session_data.messages) :
        LET m == session_data.messages[i]
        IN  "sources" \in DOMAIN m => m.sources = <<>>

\* The file save_session leaves: the record as JSON, or, json.dump having
\* raised into the file opened for writing, the part written before that.
saved_file(session_data) ==
    IF json_serializable(session_data)
    THEN [kind |-> "json", created_at |-> isoformat(session_data.created_at),
          title |-> session_data.title, messages |-> session_data.messages]
    ELSE [kind |-> "partial"]

\* save_session(session_id, session_data): the files afterwards.
save_session(files, session_id, session_data) ==
    [f \in DOMAIN files \cup {session_id} |->
        IF f = session_id THEN saved_file(session_data) ELSE files[f]]

\* The default session load_all_sessions always puts in.
DefaultSession(t) == [messages |-> <<>>, created_at |-> t, title |-> "New Conversation"]

\* get_current_messages().
get_current_messages == chat_sessions[current_session].messages

\* add_message_to_current_session with one message list shared by all the
\* sessions: a mutant that adds the message to every session.
add_message_shared(sessions, message) ==
    [x \in DOMAIN sessions |-> [sessions[x] EXCEPT !.messages = Append(@, message)]]

\* add_message_to_current_session(message): the sessions afterwards.
add_message(sessions, message) ==
    [sessions EXCEPT ![current_session].messages = Append(@, message)]

\* The user's turns a list of messages holds.
UserTurns(messages) ==
    Cardinality({i \in 1..Len(messages) :
                    "role" \in DOMAIN messages[i] /\ messages[i].role = "user"})

\* The prompt handler up to the graph: the user's message is added to the
\* current session and saved, then ask_question is called with the
\* session's messages.  At most maxPrompts prompts are sent to one session.
SubmitPrompt(q, maxPrompts) ==
    /\ pc = "idle"
    /\ UserTurns(get_current_messages) < maxPrompts
    /\ \E sessions \in {add_message(chat_sessions, [role |-> "user", content |-> q])} :
          /\ disk' = save_session(disk, current_session, sessions[current_session])
          /\ last_save' = [id |-> current_session, data |-> sessions[current_session]]
          /\ conversation_history' = sessions[current_session].messages
          /\ chat_sessions' = sessions
          /\ \E r \in {invoke_start(q, sessions[current_session].messages, now)} :
                /\ verdict' = r.verdict
                /\ pc' = r.pc
                /\ ret' = r.ret
                /\ state' = r.state
    /\ query' = q
    /\ response_verdict' = None
    /\ scores' = None
    /\ calls' = NoCalls
    /\ loaded' = None
    /\ op' = [name |-> "prompt", session_id |-> current_session]
    /\ UNCHANGED <<singletonVars, now, settings, graph_shares_state, current_session, session_counter>>

\* The prompt handler after ask_question returned: the assistant's message
\* is added to the current session and saved.
AddAssistantMessage ==
    /\ pc = "done"
    /\ ret.kind = "returned"
    /\ \E sessions \in {add_message(chat_sessions,
                                    [role |-> "assistant", content |-> ret.answer,
                                     sources |-> ret.sources, time |-> 0])} :
          /\ disk' = save_session(disk, current_session, sessions[current_session])
          /\ last_save' = [id |-> current_session, data |-> sessions[current_session]]
          /\ chat_sessions' = sessions
    /\ loaded' = None
    /\ op' = [name |-> "prompt", session_id |-> current_session]
    /\ pc' = "idle"
    /\ UNCHANGED <<singletonVars, now, settings, query, verdict, response_verdict, state, scores, calls,
                   ret, conversation_history, graph_shares_state, current_session,
                   session_counter>>

\* ------------------------------------------------- the guardrails alone

\* The pieces the checked queries are put together from.
GuardFragments ==
    << ZombieQuery,
       <<"e","d","u","c","a","t","i","o","n","a","l">>,
       <<"b","y","p","a","s","s">>,
       <<"r","e","s","t","r","i","c","t","i","o","n","s">>,
       <<"m","i","n","o","r">>,
       <<"e","x","p","l","i","c","i","t">>,
       <<"\n">>,
       <<"E","x","p","l","a","i","n"," ","s","o","r","t","i","n","g">>,
       <<"o","v","e","r","d","o","s","e">> >>

\* The most pieces in one checked query.
MaxFrags == 3

\* The pieces ix names, joined by single spaces.
RECURSIVE JoinFrags(_)
JoinFrags(ix) ==
    IF ix = <<>> THEN <<>>
    ELSE IF Len(ix) = 1 THEN GuardFragments[ix[1]]
    ELSE GuardFragments[ix[1]] \o <<" ">> \o JoinFrags(Tail(ix))

GuardQueries ==
    {JoinFrags(ix) : ix \in UNION {[1..n -> 1..Len(GuardFragments)] : n \in 0..MaxFrags}}

InitGuard ==
    /\ now = 0
    /\ settings = [top_k_results |-> DefaultTopK, reranking_threshold |-> DefaultThreshold]
    /\ query \in GuardQueries
    /\ verdict = None
    /\ response_verdict = None
    /\ pc = "check_query"
    /\ state = None
    /\ scores = None
    /\ calls = NoCalls
    /\ ret = None
    /\ conversation_history = <<>>
    /\ graph_shares_state = FALSE
    /\ SingletonsBuilt
    /\ chat_sessions = <<>>
    /\ current_session = "default"
    /\ disk = <<>>
    /\ session_counter = 1
    /\ loaded = None
    /\ last_save = None
    /\ op = None

\* check_query(query) is called.
CheckQuery ==
    /\ pc = "check_query"
    /\ verdict' = check_query(query, now)
    /\ pc' = "checked"
    /\ UNCHANGED <<now, settings, query, response_verdict, state, scores, calls, ret,
                   conversation_history, graph_shares_state, appVars, singletonVars>>

NextGuard == CheckQuery

SpecGuard == InitGuard /\ [][NextGuard]_vars

\* What the claims about check_query speak of, read off the query itself.
HasTriggerKeyword(q) ==
    \E c \in 1..Len(TRIGGER_KEYWORDS) : ContainsAny(lower(q), TRIGGER_KEYWORDS[c].keywords)

HasSafeContextToken(q) == ContainsAny(lower(q), SAFE_CONTEXTS)

MatchesSensitive(q) == SearchAny(sensitive_indicators, lower(q))

MatchesContextual(q) ==
    SearchAny(bypass_patterns, lower(q)) \/ SearchAny(harmful_roleplay, lower(q))

\* The reason names, with '_' shown as a space, a category one of whose
\* keywords occurs in the query.
CitesMatchedCategory(reason, q) ==
    \E c \in 1..Len(TRIGGER_KEYWORDS) :
        /\ ContainsAny(lower(q), TRIGGER_KEYWORDS[c].keywords)
        /\ Contains(reason, replace_char(TRIGGER_KEYWORDS[c].category, "_", " "))

\* C4: a query that holds a trigger keyword and no safe-context token is
\* judged unsafe by check_query, with a non-empty reason that cites the
\* category of a keyword it holds; the zombie-process query is blocked.
C4_KeywordBlocked ==
    pc = "checked" =>
        /\ (HasTriggerKeyword(query) /\ ~HasSafeContextToken(query)) =>
               /\ verdict.is_safe = FALSE
               /\ verdict.reason # <<>>
               /\ CitesMatchedCategory(verdict.reason, query)
        /\ query = ZombieQuery => verdict.is_safe = FALSE

C4_Witness ==
    /\ pc = "checked"
    /\ query = ZombieQuery
    /\ verdict.is_safe = FALSE
    /\ verdict.metadata.trigger_word = <<"k","i","l","l">>
    /\ Contains(verdict.reason, <<"v","i","o","l","e","n","c","e">>)

\* C5: a query that matches a sensitive-topic pattern is judged unsafe, and
\* it stays unsafe with any safe-context token put before or after it.
C5_SensitiveUnconditional ==
    (pc = "checked" /\ MatchesSensitive(query)) =>
        /\ verdict.is_safe = FALSE
        /\ \A i \in 1..Len(SAFE_CONTEXTS) :
              /\ check_query(query \o <<" ">> \o SAFE_CONTEXTS[i], now).is_safe = FALSE
              /\ check_query(SAFE_CONTEXTS[i] \o <<" ">> \o query, now).is_safe = FALSE

C5_Witness ==
    /\ pc = "checked"
    /\ MatchesSensitive(query)
    /\ HasSafeContextToken(query)
    /\ ~HasTriggerKeyword(query)
    /\ ~MatchesContextual(query)
    /\ verdict.is_safe = FALSE
    /\ verdict.metadata.violation_type = "sensitive_topic"

MaxCands == 5

\* The scores predict can give, in tenths: below, at and above the threshold.
RerankScores == {3, 4, 5, 6, 7, 9}

\* top_k_results as configured: config.py's default, and the 3 of the
\* specification's scenario.
TopKChoices == {3, DefaultTopK}

\* Candidate lists: n documents, named so that a name is not its position.
CandidateLists == {[i \in 1..n |-> n + 1 - i] : n \in 0..MaxCands}

RerankQuery == <<"E","x","p","l","a","i","n"," ","s","o","r","t","i","n","g">>

InitRerank ==
    /\ now = 0
    /\ settings \in {[top_k_results |-> k, reranking_threshold |-> DefaultThreshold] :
                        k \in TopKChoices}
    /\ query = RerankQuery
    /\ verdict = None
    /\ response_verdict = None
    /\ pc = "reranker"
    /\ \E cands \in CandidateLists :
          state = [InitialState(RerankQuery, <<>>) EXCEPT !.vector_results = cands]
    /\ scores = None
    /\ calls = NoCalls
    /\ ret = None
    /\ conversation_history = <<>>
    /\ graph_shares_state = FALSE
    /\ SingletonsBuilt
    /\ chat_sessions = <<>>
    /\ current_session = "default"
    /\ disk = <<>>
    /\ session_counter = 1
    /\ loaded = None
    /\ last_save = None
    /\ op = None

NextRerank == RerankerNode(RerankScores)

SpecRerank == InitRerank /\ [][NextRerank]_vars

\* The position of document d in the candidate list.
PosOf(cands, d) == CHOOSE i \in 1..Len(cands) : cands[i] = d

\* Candidate i is ranked before candidate j: a greater score, or the same
\* score and earlier in retrieval order.
RankedBefore(i, j, sc) == sc[i] > sc[j] \/ (sc[i] = sc[j] /\ i < j)

\* The reranker scored a non-empty candidate list.
Scored == scores # None /\ ~scores.raised /\ state.vector_results # <<>>

\* C8: after the reranker scored a non-empty candidate list, its result is
\* the candidates scoring at least the threshold, by descending score with
\* ties in retrieval order, cut to the first top-K; scores
\* [0.9, 0.3, 0.7, 0.4, 0.6] with threshold 0.5 and top-K 3 give the first,
\* third and fifth candidate.
C8_RerankResult ==
    Scored =>
        LET cands == state.vector_results
            res == state.reranked_results
            sc == scores.values
            surviving == {i \in 1..Len(cands) : sc[i] >= settings.reranking_threshold}
            k == settings.top_k_results
        IN  /\ \A n \in 1..Len(res) : \E i \in 1..Len(cands) : cands[i] = res[n]
            /\ Len(res) = (IF Cardinality(surviving) < k THEN Cardinality(surviving) ELSE k)
            /\ \A n \in 1..Len(res) : PosOf(cands, res[n]) \in surviving
            /\ \A n \in 1..(Len(res) - 1) :
                  RankedBefore(PosOf(cands, res[n]), PosOf(cands, res[n + 1]), sc)
            /\ \A i \in surviving :
                  (\A n \in 1..Len(res) : res[n] # cands[i]) =>
                      \A n \in 1..Len(res) : RankedBefore(PosOf(cands, res[n]), i, sc)
            /\ (sc = <<9, 3, 7, 4, 6>> /\ settings.reranking_threshold = 5 /\ k = 3) =>
                  res = <<cands[1], cands[3], cands[5]>>

C8_Witness ==
    /\ Scored
    /\ scores.values = <<9, 3, 7, 4, 6>>
    /\ settings.top_k_results = 3
    /\ state.reranked_results =
           <<state.vector_results[1], state.vector_results[3], state.vector_results[5]>>

\* C9: after reranking, the recorded confidence is the score of the
\* top-ranked surviving candidate, and 0.0 when no candidate survives.
C9_ConfidenceIsTopScore ==
    Scored =>
        state.confidence =
            IF state.reranked_results = <<>> THEN 0
            ELSE scores.values[PosOf(state.vector_results, state.reranked_results[1])]

\* C10: with an empty candidate list the reranker gives an empty result and
\* never calls the scoring model.
C10_EmptyNoPredict ==
    (pc = "answer_generator" /\ state.vector_results = <<>>) =>
        /\ state.reranked_results = <<>>
        /\ calls.predict = 0
        /\ scores = None

C10_Witness ==
    /\ pc = "answer_generator"
    /\ state.vector_results = <<>>
    /\ calls.nodes = <<"reranker">>
    /\ calls.predict = 0
    /\ state.reranked_results = <<>>

\* ------------------------------------------------- the reranker run twice

NextRerankTwice ==
    \/ RerankerNode(RerankScores)
    \/ RerankAgain

SpecRerankTwice == InitRerank /\ [][NextRerankTwice]_vars

\* C11: reranking is idempotent: a second run of the reranker, on the same
\* candidates with the same scores or on its own result list with each
\* document keeping its score, leaves the ordered result list as the first
\* run gave it.
C11_RerankIdempotent ==
    [][pc' = "reranked_again" => state'.reranked_results = state.reranked_results]_vars

\* A second run has scored a result list of three documents, two of them
\* with equal scores, that the first run had reordered.
C11_Witness ==
    /\ pc = "reranked_again"
    /\ calls.predict = 2
    /\ state.vector_results = state.reranked_results
    /\ Len(state.reranked_results) = 3
    /\ state.reranked_results[1] < state.reranked_results[2]
    /\ scores # None /\ ~scores.raised /\ scores.values = <<7, 6, 6>>

\* ------------------------------------------------------------ ask_question

\* The queries asked: blocked for a trigger keyword, plain, and medical.
PipelineQueries == {ZombieQuery, ExplainQuery, HealthQuery}

\* The answers the generation model gives.
LLMAnswers == {PlainAnswer, HarmfulAnswer, DisclaimerAnswer}

\* The scores predict gives in the pipeline: below and above the threshold.
PipelineScores == {4, 6}

\* The most documents the store has for a query.
MaxRetrieved == 2

\* The histories handed to ask_question: none, and one earlier exchange.
PipelineHistories ==
    { <<>>,
      << [role |-> "user", content |-> ExplainQuery],
         [role |-> "assistant", content |-> PlainAnswer, sources |-> <<>>, time |-> 0] >> }

Init ==
    /\ now = 0
    /\ settings = [top_k_results |-> DefaultTopK, reranking_threshold |-> DefaultThreshold]
    /\ query = <<>>
    /\ verdict = None
    /\ response_verdict = None
    /\ pc = "idle"
    /\ state = None
    /\ scores = None
    /\ calls = NoCalls
    /\ ret = None
    /\ conversation_history = <<>>
    /\ graph_shares_state \in BOOLEAN
    /\ SingletonsBuilt
    /\ chat_sessions = <<>>
    /\ current_session = "default"
    /\ disk = <<>>
    /\ session_counter = 1
    /\ loaded = None
    /\ last_save = None
    /\ op = None

Next ==
    \/ \E q \in PipelineQueries, h \in PipelineHistories : Ask(q, h)
    \/ IntentClassifier
    \/ VectorRagNode(RetrievalOutcomes(MaxRetrieved))
    \/ RerankerNode(PipelineScores)
    \/ AnswerGeneratorNode(LLMOutcomes(LLMAnswers))
    \/ MemoryUpdateNode
    \/ GraphRaises
    \/ CheckResponse

Spec == Init /\ [][Next]_vars

\* C1: when check_query judges the query unsafe, ask returns a refusal that
\* holds the verdict's reason, with no sources, and no node of the graph
\* (intent, retrieval, reranking, generation, memory update) and no model
\* call runs for that call.
C1_BlockedShortCircuit ==
    (verdict # None /\ verdict.is_safe = FALSE) =>
        /\ pc = "done"
        /\ ret.kind = "returned"
        /\ verdict.reason # <<>>
        /\ Contains(ret.answer, verdict.reason)
        /\ ret.sources = <<>>
        /\ calls.nodes = <<>>
        /\ calls.predict = 0
        /\ calls.llm = 0
        /\ state = None

C1_Witness ==
    /\ pc = "done"
    /\ query = ZombieQuery
    /\ verdict.is_safe = FALSE
    /\ ret = Returned(QueryRefusalPrefix \o verdict.reason, <<>>)
    /\ calls = NoCalls

\* C2: ask never raises: whatever is thrown while the pipeline runs, the
\* call ends with an (answer, sources) pair whose answer is not empty.
C2_NeverRaises ==
    pc = "done" => (ret.kind = "returned" /\ ret.answer # <<>>)

\* C3: when check_response judges the generated answer unsafe, ask returns
\* a refusal that holds the verdict's reason, and no sources.
C3_UnsafeResponseNoSources ==
    (pc = "done" /\ response_verdict # None /\ response_verdict.is_safe = FALSE) =>
        /\ ret.kind = "returned"
        /\ Contains(ret.answer, response_verdict.reason)
        /\ ret.sources = <<>>

\* -------------------------------------------------- the prompts of a session

\* The most prompts sent to the session.
MemMaxPrompts == 21

InitMemory ==
    /\ now = 0
    /\ settings = [top_k_results |-> DefaultTopK, reranking_threshold |-> DefaultThreshold]
    /\ query = <<>>
    /\ verdict = None
    /\ response_verdict = None
    /\ pc = "idle"
    /\ state = None
    /\ scores = None
    /\ calls = NoCalls
    /\ ret = None
    /\ conversation_history = <<>>
    /\ graph_shares_state \in BOOLEAN
    /\ SingletonsBuilt
    /\ chat_sessions = [sid \in {"default"} |-> DefaultSession(now)]
    /\ current_session = "default"
    /\ disk = <<>>
    /\ session_counter = 1
    /\ loaded = None
    /\ last_save = None
    /\ op = None

NextMemory ==
    \/ SubmitPrompt(ExplainQuery, MemMaxPrompts)
    \/ IntentClassifier
    \/ VectorRagNode(RetrievalOutcomes(0))
    \/ RerankerNode(PipelineScores)
    \/ AnswerGeneratorNode({[raised |-> FALSE, text |-> PlainAnswer]})
    \/ MemoryUpdateNode
    \/ CheckResponse
    \/ AddAssistantMessage

SpecMemory == InitMemory /\ [][NextMemory]_vars

\* C7: a session's conversation memory holds at most 20 turns, whatever
\* prompts were sent and messages added; one query the session remembers is
\* one turn.
C7_SessionMemoryCapped ==
    \A sid \in DOMAIN chat_sessions :
        UserTurns(chat_sessions[sid].messages) <= MemoryCap

\* --------------------------------------------- retrieval without candidates

\* Node n has run in the call in progress.
Ran(n) == \E i \in 1..Len(calls.nodes) : calls.nodes[i] = n

AllNodes ==
    <<"intent_classifier", "vector_rag", "reranker", "answer_generator", "memory_update">>

\* The query passed the gate and retrieval has left no candidates.
NoCandidates ==
    /\ verdict # None /\ verdict.is_safe
    /\ state # None
    /\ Ran("vector_rag")
    /\ state.vector_results = <<>>

\* C12: for a safe query whose retrieval gives no candidates, the store
\* having none or the retrieval call having failed (which sets the error
\* flag and nothing else), the run goes on: reranking gives an empty list
\* without scoring, generation is asked once with the un-grounded prompt,
\* memory is updated, and ask returns the generated answer, unless the
\* response gate replaces it, with no sources.  Only an exception leaving
\* the graph ends the run before all five stages.
C12_EmptyRetrievalProceeds ==
    NoCandidates =>
        /\ ("vector_rag" \in calls.raised /\ pc = "reranker") =>
               state = [InitialState(query, conversation_history) EXCEPT
                           !.intent = classify_intent(query), !.error = RetrievalError]
        /\ Ran("reranker") => (state.reranked_results = <<>> /\ calls.predict = 0)
        /\ Ran("answer_generator") => (calls.llm = 1 /\ calls.prompt = "ungrounded")
        /\ pc = "done" => (calls.nodes = AllNodes \/ "graph" \in calls.raised)
        /\ (pc = "done" /\ ret.kind = "returned") =>
               /\ calls.nodes = AllNodes
               /\ ret.sources = <<>>
               /\ ret.answer # <<>>
               /\ response_verdict.is_safe => ret.answer = state.answer
               /\ state.memory # <<>>
               /\ state.memory[Len(state.memory)] = exchange_of(state)

\* A safe query's retrieval failed and ask returned the model's answer
\* with no sources, after all five stages.
C12_Witness ==
    /\ NoCandidates
    /\ pc = "done"
    /\ "vector_rag" \in calls.raised
    /\ calls.nodes = AllNodes
    /\ calls.prompt = "ungrounded"
    /\ response_verdict.is_safe
    /\ ret = Returned(PlainAnswer, <<>>)

\* -------------------------------------------------------- the session store

\* The ids create_new_session gives: f"session_{n}".
SessionName == <<"session_1", "session_2", "session_3">>

session_id(n) == SessionName[n]

\* int(s.split("_")[1]).
session_number(sid) == CHOOSE n \in 1..Len(SessionName) : SessionName[n] = sid

\* s.startswith("session_").
is_numbered(sid) == \E n \in 1..Len(SessionName) : SessionName[n] = sid

\* f"Conversation {n}".
ConversationTitle == <<"Conversation 1", "Conversation 2", "Conversation 3">>

\* The lowest number from c on that no numbered session has: the loop over
\* the sorted numbers that stops at the first gap.
RECURSIVE lowest_missing(_, _)
lowest_missing(numbers, c) ==
    IF c \in numbers THEN lowest_missing(numbers, c + 1) ELSE c

\* The session counter computed from the sessions in memory.
counter_for(sessions) ==
    lowest_missing({session_number(sid) : sid \in {x \in DOMAIN sessions : is_numbered(x)}}, 1)

\* delete_session_file with the unlink left out: a mutant that keeps the file.
delete_session_file_kept(files, sid) == files

\* delete_session_file(session_id): the files afterwards.
delete_session_file(files, sid) == [f \in DOMAIN files \ {sid} |-> files[f]]

\* The text is one datetime.fromisoformat parses.
is_isoformat(text) == Len(text) = 2 /\ text[1] = "iso"

\* The body of load_session's try block: json.load, then the conversion of
\* data["created_at"]; what it gives, or that it raises.
load_session_try(file) ==
    IF file.kind # "json" THEN [kind |-> "raises", error |-> "JSONDecodeError"]
    ELSE IF "created_at" \notin DOMAIN file THEN [kind |-> "raises", error |-> "KeyError"]
    ELSE IF ~is_isoformat(file.created_at) THEN [kind |-> "raises", error |-> "ValueError"]
    ELSE [kind |-> "data",
          data |-> [messages |-> file.messages,
                    created_at |-> fromisoformat(file.created_at),
                    title |-> file.title]]

\* load_session without its except clause: a mutant that lets the exception out.
load_session_uncaught(files, sid) ==
    IF sid \notin DOMAIN files THEN [kind |-> "none"]
    ELSE load_session_try(files[sid])

\* load_session(session_id): the record, or None for a file that is not
\* there and for one the try block raises on.
load_session(files, sid) ==
    IF sid \notin DOMAIN files THEN [kind |-> "none"]
    ELSE LET r == load_session_try(files[sid])
         IN  IF r.kind = "raises" THEN [kind |-> "none"] ELSE r

\* load_all_sessions without its default entry: a mutant that gives only
\* the sessions read from the files.
load_all_sessions_saved_only(files, t) ==
    LET ids == {sid \in DOMAIN files \ {"default"} : load_session(files, sid).kind = "data"}
    IN  [sid \in ids |-> load_session(files, sid).data]

\* load_all_sessions(): the default session, made anew, and every other
\* session load_session gives a record for.
load_all_sessions(files, t) ==
    LET ids == {sid \in DOMAIN files \ {"default"} : load_session(files, sid).kind = "data"}
    IN  [sid \in ids \cup {"default"} |->
            IF sid = "default" THEN DefaultSession(t)
            ELSE load_session(files, sid).data]

\* The handler that ran, for op.
Handler(name, sid) == [name |-> name, session_id |-> sid]

\* The front end's script reaches the chat and statistics tabs only when
\* the current session is in the session map (it reads its title first).
CurrentSessionKnown == current_session \in DOMAIN chat_sessions

\* The most numbered sessions created, messages kept in all the sessions
\* together, and days the clock runs.
MaxNumbered == 2

MaxStoredMessages == 1

MaxTime == 31

\* cleanup_old_sessions(30), as the statistics tab calls it.
MaxAgeDays == 30

\* The messages the sessions in memory hold, all together.
RECURSIVE StoredCount(_, _)
StoredCount(sessions, ids) ==
    IF ids = {} THEN 0
    ELSE LET sid == CHOOSE x \in ids : TRUE
         IN  Len(sessions[sid].messages) + StoredCount(sessions, ids \ {sid})

RoomForMessage == StoredCount(chat_sessions, DOMAIN chat_sessions) < MaxStoredMessages

\* create_new_session().
CreateNewSession ==
    /\ pc = "running"
    /\ session_counter <= MaxNumbered
    /\ LET sid == session_id(session_counter)
           data == [messages |-> <<>>, created_at |-> now,
                    title |-> ConversationTitle[session_counter]]
       IN  /\ chat_sessions' = [x \in DOMAIN chat_sessions \cup {sid} |->
                                    IF x = sid THEN data ELSE chat_sessions[x]]
           /\ disk' = save_session(disk, sid, data)
           /\ last_save' = [id |-> sid, data |-> data]
           /\ current_session' = sid
           /\ op' = Handler("create_new_session", sid)
    /\ session_counter' = session_counter + 1
    /\ loaded' = None
    /\ UNCHANGED <<singletonVars, now, settings, query, verdict, response_verdict, pc, state, scores,
                   calls, ret, conversation_history, graph_shares_state>>

\* switch_session(session_id).
SwitchSession(sid) ==
    /\ pc = "running"
    /\ current_session' = IF sid \in DOMAIN chat_sessions THEN sid ELSE current_session
    /\ op' = Handler("switch_session", sid)
    /\ loaded' = None
    /\ UNCHANGED <<singletonVars, now, settings, query, verdict, response_verdict, pc, state, scores,
                   calls, ret, conversation_history, graph_shares_state, chat_sessions,
                   disk, session_counter, last_save>>

\* delete_session(session_id): nothing for the default session and for an
\* id not in the map.
DeleteSession(sid) ==
    /\ pc = "running"
    /\ op' = Handler("delete_session", sid)
    /\ IF sid \in DOMAIN chat_sessions /\ sid # "default"
       THEN LET sessions == [x \in DOMAIN chat_sessions \ {sid} |-> chat_sessions[x]]
            IN  /\ chat_sessions' = sessions
                /\ disk' = delete_session_file(disk, sid)
                /\ session_counter' = counter_for(sessions)
                /\ current_session' =
                       IF current_session = sid THEN "default" ELSE current_session
                /\ last_save' =
                       IF last_save # None /\ last_save.id = sid THEN None ELSE last_save
                /\ loaded' = None
       ELSE /\ loaded' = None
            /\ UNCHANGED <<chat_sessions, disk, session_counter, current_session,
                           last_save>>
    /\ UNCHANGED <<singletonVars, now, settings, query, verdict, response_verdict, pc, state, scores,
                   calls, ret, conversation_history, graph_shares_state>>

\* The Clear Chat button: the current session's messages are emptied, and
\* the session is saved unless it is the default session.
ClearChat ==
    /\ pc = "running"
    /\ CurrentSessionKnown
    /\ LET sessions == [chat_sessions EXCEPT ![current_session].messages = <<>>]
       IN  /\ chat_sessions' = sessions
           /\ IF current_session # "default"
              THEN /\ disk' = save_session(disk, current_session,
                                           sessions[current_session])
                   /\ last_save' = [id |-> current_session,
                                    data |-> sessions[current_session]]
                   /\ loaded' = None
              ELSE /\ loaded' = None
                   /\ UNCHANGED <<disk, last_save>>
    /\ op' = Handler("clear", current_session)
    /\ UNCHANGED <<singletonVars, now, settings, query, verdict, response_verdict, pc, state, scores,
                   calls, ret, conversation_history, graph_shares_state,
                   current_session, session_counter>>

\* add_message_to_current_session(message).
AddMessage(message) ==
    /\ pc = "running"
    /\ CurrentSessionKnown
    /\ RoomForMessage
    /\ LET sessions == add_message(chat_sessions, message)
       IN  /\ chat_sessions' = sessions
           /\ disk' = save_session(disk, current_session, sessions[current_session])
           /\ last_save' = [id |-> current_session, data |-> sessions[current_session]]
    /\ loaded' = None
    /\ op' = Handler("add_message", current_session)
    /\ UNCHANGED <<singletonVars, now, settings, query, verdict, response_verdict, pc, state, scores,
                   calls, ret, conversation_history, graph_shares_state,
                   current_session, session_counter>>

\* The process dies in add_message_to_current_session's save_session, the
\* file opened for writing and the record not yet written in full.
CrashDuringSave(message) ==
    /\ pc = "running"
    /\ CurrentSessionKnown
    /\ RoomForMessage
    /\ chat_sessions' = add_message(chat_sessions, message)
    /\ disk' = [f \in DOMAIN disk \cup {current_session} |->
                   IF f = current_session THEN [kind |-> "partial"] ELSE disk[f]]
    /\ last_save' = None
    /\ loaded' = None
    /\ op' = Handler("crash", current_session)
    /\ pc' = "crashed"
    /\ UNCHANGED <<singletonVars, now, settings, query, verdict, response_verdict, state, scores,
                   calls, ret, conversation_history, graph_shares_state,
                   current_session, session_counter>>

\* The sessions cleanup_old_sessions removes: the files, the default one
\* apart, that load_session reads and that are older than the cutoff.
old_sessions(files, t, max_age_days) ==
    {sid \in DOMAIN files \ {"default"} :
        /\ load_session(files, sid).kind = "data"
        /\ load_session(files, sid).data.created_at < t - max_age_days}

\* cleanup_old_sessions(max_age_days).
CleanupOldSessions(max_age_days) ==
    /\ pc = "running"
    /\ CurrentSessionKnown
    /\ LET old == old_sessions(disk, now, max_age_days)
       IN  /\ disk' = [f \in DOMAIN disk \ old |-> disk[f]]
           /\ chat_sessions' = [x \in DOMAIN chat_sessions \ old |-> chat_sessions[x]]
           /\ last_save' = IF last_save # None /\ last_save.id \in old
                           THEN None ELSE last_save
    /\ loaded' = None
    /\ op' = Handler("cleanup_old_sessions", current_session)
    /\ UNCHANGED <<singletonVars, now, settings, query, verdict, response_verdict, pc, state, scores,
                   calls, ret, conversation_history, graph_shares_state,
                   current_session, session_counter>>

\* load_session(session_id) is called.
LoadSession(sid) ==
    /\ pc = "running"
    /\ loaded' = [id |-> sid, result |-> load_session(disk, sid)]
    /\ op' = Handler("load_session", sid)
    /\ UNCHANGED <<singletonVars, now, settings, query, verdict, response_verdict, pc, state, scores,
                   calls, ret, conversation_history, graph_shares_state, chat_sessions,
                   current_session, disk, session_counter, last_save>>

\* A new run of the front end with an empty session state: the current
\* session is the default one, the sessions are loaded from the files and
\* the counter is computed from them.
Startup ==
    /\ pc \in {"running", "crashed"}
    /\ \E sessions \in {load_all_sessions(disk, now)} :
          /\ chat_sessions' = sessions
          /\ session_counter' = counter_for(sessions)
    /\ current_session' = "default"
    /\ loaded' = None
    /\ op' = Handler("startup", "default")
    /\ pc' = "running"
    /\ UNCHANGED <<singletonVars, now, settings, query, verdict, response_verdict, state, scores,
                   calls, ret, conversation_history, graph_shares_state, disk, last_save>>

\* days days pass.
Tick(days) ==
    /\ pc = "running"
    /\ now + days <= MaxTime
    /\ now' = now + days
    /\ op' = Handler("tick", current_session)
    /\ loaded' = None
    /\ UNCHANGED <<singletonVars, settings, query, verdict, response_verdict, pc, state, scores,
                   calls, ret, conversation_history, graph_shares_state, chat_sessions,
                   current_session, disk, session_counter, last_save>>

\* ---------------------------------------------------- the sessions alone

\* The ids the handlers are called with: the default session and a numbered
\* one, which is not always in the session map.
SessionIds == {"default", "session_1"}

\* The messages added to a session: the user's, and the assistant's with
\* one retrieved Document as source.
UserMessage == [role |-> "user", content |-> ExplainQuery]

StoredMessages ==
    {UserMessage,
     [role |-> "assistant", content |-> PlainAnswer, sources |-> <<1>>, time |-> 0]}

\* The days that pass in one step: past the age cleanup_old_sessions allows.
TickDays == MaxAgeDays + 1

\* A record as save_session writes it, and records it cannot have written:
\* one without created_at and one whose created_at is no ISO text.
GoodFile ==
    saved_file([messages |-> <<[role |-> "user", content |-> ExplainQuery]>>,
                created_at |-> 0, title |-> "Conversation 1"])

NoTimestampFile ==
    [kind |-> "json", title |-> "Conversation 1", messages |-> <<>>]

BadTimestampFile ==
    [kind |-> "json", created_at |-> <<"yesterday">>, title |-> "Conversation 1",
     messages |-> <<>>]

\* The files found at the first startup.
InitialDisks ==
    { <<>>,
      [f \in {"session_1"} |-> GoodFile],
      [f \in {"session_2"} |-> NoTimestampFile],
      [f \in {"session_1", "session_2"} |->
          IF f = "session_1" THEN BadTimestampFile ELSE GoodFile],
      [f \in {"default", "session_2"} |->
          IF f = "default" THEN GoodFile ELSE [kind |-> "partial"]] }

InitSessions ==
    /\ now = 0
    /\ settings = [top_k_results |-> DefaultTopK, reranking_threshold |-> DefaultThreshold]
    /\ query = <<>>
    /\ verdict = None
    /\ response_verdict = None
    /\ pc = "running"
    /\ state = None
    /\ scores = None
    /\ calls = NoCalls
    /\ ret = None
    /\ conversation_history = <<>>
    /\ graph_shares_state = FALSE
    /\ SingletonsBuilt
    /\ disk \in InitialDisks
    /\ chat_sessions = load_all_sessions(disk, now)
    /\ current_session = "default"
    /\ session_counter = counter_for(chat_sessions)
    /\ loaded = None
    /\ last_save = None
    /\ op = Handler("startup", "default")

NextSessions ==
    \/ CreateNewSession
    \/ \E sid \in SessionIds : SwitchSession(sid)
    \/ \E sid \in SessionIds : DeleteSession(sid)
    \/ ClearChat
    \/ \E m \in StoredMessages : AddMessage(m)
    \/ CrashDuringSave(UserMessage)
    \/ CleanupOldSessions(MaxAgeDays)
    \/ \E sid \in SessionIds : LoadSession(sid)
    \/ Startup
    \/ Tick(TickDays)

SpecSessions == InitSessions /\ [][NextSessions]_vars

\* C13: save_session followed by load_session of the same id gives back the
\* record that was saved, field for field: the id's latest save being the
\* latest change to its file, load_session returns a record equal to the
\* saved one, timestamp and the messages' sources included.
C13_SaveLoadRoundTrip ==
    (loaded # None /\ last_save # None /\ loaded.id = last_save.id) =>
        /\ loaded.result.kind = "data"
        /\ loaded.result.data = last_save.data

C15_DefaultAlwaysExists ==
    /\ []("default" \in DOMAIN chat_sessions)
    /\ [][op' = Handler("delete_session", "default") =>
             UNCHANGED <<chat_sessions, disk, current_session, session_counter>>]_vars

\* delete_session("default") has run with no file stored, the default
\* session being the current one, and the default session is still there.
C15_Witness ==
    /\ op = Handler("delete_session", "default")
    /\ DOMAIN disk = {}
    /\ current_session = "default"
    /\ DOMAIN chat_sessions = {"default"}

\* The file is not a record load_session can read: not JSON, or without a
\* created_at, or with one that is no ISO text.
Malformed(file) ==
    \/ file.kind # "json"
    \/ "created_at" \notin DOMAIN file
    \/ ~is_isoformat(file.created_at)

\* C16: load_session never raises: for an id without a file and for a
\* malformed file it gives None, and for any other file the record; and
\* load_all_sessions leaves out the sessions with a malformed file and
\* loads all the others.
C16_LoadNeverRaises ==
    /\ loaded # None =>
           /\ loaded.result.kind \in {"data", "none"}
           /\ loaded.result.kind = "none" <=>
                  (loaded.id \notin DOMAIN disk \/ Malformed(disk[loaded.id]))
    /\ op = Handler("startup", "default") =>
           /\ DOMAIN chat_sessions =
                  {"default"} \cup {sid \in DOMAIN disk \ {"default"} : ~Malformed(disk[sid])}
           /\ \A sid \in DOMAIN chat_sessions \ {"default"} :
                  /\ chat_sessions[sid].created_at = disk[sid].created_at[2]
                  /\ chat_sessions[sid].messages = disk[sid].messages
                  /\ chat_sessions[sid].title = disk[sid].title

\* A startup has found a file with an unparsable created_at next to a
\* good one, and has loaded the good one only.
C16_Witness ==
    /\ op = Handler("startup", "default")
    /\ now > 0
    /\ DOMAIN disk = {"session_1", "session_2"}
    /\ disk["session_1"].kind = "json"
    /\ disk["session_1"].created_at = <<"yesterday">>
    /\ DOMAIN chat_sessions = {"default", "session_2"}

\* C17: save_session is atomic: whatever step writes a session's file, a
\* save that completes, one that fails or one the process dies in, the
\* file afterwards is the complete previous record or a complete new one,
\* never a truncated or malformed one.
C17_SaveAtomic ==
    [][\A sid \in DOMAIN disk' :
          \/ sid \in DOMAIN disk /\ disk'[sid] = disk[sid]
          \/ ~Malformed(disk'[sid])]_vars

\* ------------------------------------------- the two gates, one after the other

\* A medical query with a safe-context token, and harmful instructions
\* with one.
EducationalHealthQuery ==
    <<"E","d","u","c","a","t","i","o","n","a","l"," ","h","e","a","l","t","h"," ","t","i","p",
      "s">>

ResearchHarmfulAnswer ==
    <<"F","o","r"," ","r","e","s","e","a","r","c","h",":"," ","s","t","e","p"," ","b","y"," ","s",
      "t","e","p",","," ","b","u","i","l","d"," ","a"," ","b","o","m","b",".">>

\* The queries checked: those of the guardrails alone, and two medical ones.
VerdictQueries == GuardQueries \cup {HealthQuery, EducationalHealthQuery}

\* The responses checked: harmless, with harmful instructions, with a
\* medical disclaimer, with harmful instructions and a safe-context token,
\* and empty.
VerdictResponses ==
    {PlainAnswer, HarmfulAnswer, DisclaimerAnswer, ResearchHarmfulAnswer, <<>>}

InitVerdicts ==
    /\ now = 0
    /\ settings = [top_k_results |-> DefaultTopK, reranking_threshold |-> DefaultThreshold]
    /\ query \in VerdictQueries
    /\ verdict = None
    /\ response_verdict = None
    /\ pc = "check_query"
    /\ state = None
    /\ scores = None
    /\ calls = NoCalls
    /\ ret = None
    /\ conversation_history = <<>>
    /\ graph_shares_state = FALSE
    /\ SingletonsBuilt
    /\ chat_sessions = <<>>
    /\ current_session = "default"
    /\ disk = <<>>
    /\ session_counter = 1
    /\ loaded = None
    /\ last_save = None
    /\ op = None

\* check_response(response, query) is called on a graph result whose answer
\* is response.
CheckResponseOf(response) ==
    /\ pc = "checked"
    /\ state' = [InitialState(query, <<>>) EXCEPT !.answer = response]
    /\ response_verdict' = check_response(response, query, now)
    /\ pc' = "response_checked"
    /\ UNCHANGED <<now, settings, query, verdict, scores, calls, ret,
                   conversation_history, graph_shares_state, appVars, singletonVars>>

NextVerdicts ==
    \/ CheckQuery
    \/ \E response \in VerdictResponses : CheckResponseOf(response)

SpecVerdicts == InitVerdicts /\ [][NextVerdicts]_vars

\* C18: every verdict with is_safe = false that check_query or
\* check_response returns, whichever check produced it, carries a reason
\* that is not empty.
C18_UnsafeHasReason ==
    /\ (verdict # None /\ ~verdict.is_safe) => verdict.reason # <<>>
    /\ (response_verdict # None /\ ~response_verdict.is_safe) =>
           response_verdict.reason # <<>>

\* check_response has judged a harmless answer to a medical query unsafe
\* for its missing disclaimer, and says why.
C18_Witness ==
    /\ pc = "response_checked"
    /\ query = HealthQuery
    /\ verdict.is_safe
    /\ state.answer = PlainAnswer
    /\ ~response_verdict.is_safe
    /\ response_verdict.metadata.violation_type = "missing_medical_disclaimer"
    /\ response_verdict.reason = ReasonMissingDisclaimer

\* The metadata of verdict v holds a timestamp and, for an unsafe verdict,
\* the category and the rule that matched.
MetadataComplete(v) ==
    /\ "timestamp" \in DOMAIN v.metadata
    /\ ~v.is_safe =>
           /\ "category" \in DOMAIN v.metadata
           /\ \/ "trigger_word" \in DOMAIN v.metadata
              \/ "pattern" \in DOMAIN v.metadata
              \/ "matched_rule" \in DOMAIN v.metadata

\* C19: the metadata check_query and check_response return always holds a
\* timestamp and, for an unsafe verdict, also the category and the matched
\* rule, whichever check produced the verdict.
C19_MetadataComplete ==
    /\ verdict # None => MetadataComplete(verdict)
    /\ response_verdict # None => MetadataComplete(response_verdict)

\* ------------------------------------------------ the intent classifier alone

\* The words the classified queries are put together from: a coding, a
\* search and an explanation keyword, a capitalised coding keyword, a
\* two-word search keyword and a word of no group.
IntentWords ==
    << <<"d","e","b","u","g">>,
       <<"s","e","a","r","c","h">>,
       <<"e","x","p","l","a","i","n">>,
       <<"F","i","x">>,
       <<"l","o","o","k"," ","f","o","r">>,
       <<"h","e","l","l","o">> >>

\* The most words in one classified query.
MaxWords == 3

\* The words ix names, joined by single spaces.
RECURSIVE JoinWords(_)
JoinWords(ix) ==
    IF ix = <<>> THEN <<>>
    ELSE IF Len(ix) = 1 THEN IntentWords[ix[1]]
    ELSE IntentWords[ix[1]] \o <<" ">> \o JoinWords(Tail(ix))

IntentQueries ==
    {JoinWords(ix) : ix \in UNION {[1..n -> 1..Len(IntentWords)] : n \in 0..MaxWords}}

InitIntent ==
    /\ now = 0
    /\ settings = [top_k_results |-> DefaultTopK, reranking_threshold |-> DefaultThreshold]
    /\ query \in IntentQueries
    /\ verdict = None
    /\ response_verdict = None
    /\ pc = "intent_classifier"
    /\ state = InitialState(query, <<>>)
    /\ scores = None
    /\ calls = NoCalls
    /\ ret = None
    /\ conversation_history = <<>>
    /\ graph_shares_state = FALSE
    /\ SingletonsBuilt
    /\ chat_sessions = <<>>
    /\ current_session = "default"
    /\ disk = <<>>
    /\ session_counter = 1
    /\ loaded = None
    /\ last_save = None
    /\ op = None

NextIntent == IntentClassifier

SpecIntent == InitIntent /\ [][NextIntent]_vars

\* C20: the intent is that of the first keyword group the query meets, the
\* groups taken in the order coding, search, explanation, and "general"
\* when it meets none: a query with a coding and a search keyword is
\* "coding", and every query gets exactly one of the four intents.
C20_IntentPriority ==
    pc = "vector_rag" =>
        /\ state.intent \in {"coding", "search", "explanation", "general"}
        /\ state.intent =
               IF ContainsAny(lower(query), coding_words) THEN "coding"
               ELSE IF ContainsAny(lower(query), search_words) THEN "search"
               ELSE IF ContainsAny(lower(query), explanation_words) THEN "explanation"
               ELSE "general"

\* ------------------------------------------------ memory and the output gate

\* C21: in every ask call that is not blocked at the query, the memory
\* update comes after the output safety gate: the turn appended to the
\* conversation memory carries the answer ask returns, so that a rejected
\* answer is never in the memory, the refusal is.
C21_MemoryAfterOutputGate ==
    (pc = "done" /\ ret.kind = "returned" /\ verdict.is_safe) =>
        /\ state.memory # <<>>
        /\ state.memory[Len(state.memory)].answer = ret.answer
        /\ response_verdict.is_safe = FALSE =>
               \A i \in 1..Len(state.memory) :
                   "answer" \in DOMAIN state.memory[i] =>
                       state.memory[i].answer # state.answer

\* ---------------------------------------------------- failing model calls

\* The scoring model raised in the reranker of the call in progress.
PredictFailed == state # None /\ scores # None /\ scores.raised

\* C22: when the scoring model call fails the run is not aborted: the
\* reranked result is the retrieved candidates in retrieval order, the
\* confidence is 0.0, and generation goes on with those candidates as its
\* context.
C22_RerankFallback ==
    (PredictFailed /\ Ran("reranker")) =>
        /\ state.reranked_results = state.vector_results
        /\ state.confidence = 0
        /\ pc # "done" \/ "graph" \in calls.raised \/ calls.nodes = AllNodes
        /\ Ran("answer_generator") => calls.prompt = "grounded"

\* The generation model raised in the call in progress.
GenerationFailed == state # None /\ "answer_generator" \in calls.raised

\* C23: the generation stage calls the model once, never more, in an ask
\* that is not blocked; when that call fails nothing is raised: the answer
\* is the error description, and the memory update and the output safety
\* check still run on it.
C23_GenerationOnceAndCaught ==
    /\ calls.llm = (IF Ran("answer_generator") THEN 1 ELSE 0)
    /\ (pc = "done" /\ ret.kind = "returned" /\ verdict.is_safe) => calls.llm = 1
    /\ GenerationFailed =>
           /\ state.answer = GenerationErrorPrefix \o GenerationError
           /\ state.error = GenerationError
           /\ pc \in {"memory_update", "check_response", "done"}
           /\ pc = "done" => (calls.nodes = AllNodes \/ "graph" \in calls.raised)
           /\ (pc = "done" /\ ret.kind = "returned") =>
                  /\ state.memory[Len(state.memory)].answer = state.answer
                  /\ response_verdict = check_response(state.answer, query, now)
                  /\ ret.answer = IF response_verdict.is_safe THEN state.answer
                                  ELSE ResponseRefusalPrefix \o response_verdict.reason

\* The model call failed, and ask returned the error description after the
\* memory update and the output safety check.
C23_Witness ==
    /\ GenerationFailed
    /\ pc = "done"
    /\ calls.nodes = AllNodes
    /\ calls.llm = 1
    /\ response_verdict # None /\ response_verdict.is_safe
    /\ ret.kind = "returned"
    /\ ret.answer = GenerationErrorPrefix \o GenerationError

\* ------------------------------------------------------- the response check

\* The response matches an actionable-harm pattern.
MatchesHarm(response) == SearchAny(harmful_advice_patterns, strip(lower(response)))

\* The query holds a medical term and the response no disclaimer phrase.
LacksDisclaimer(response, q) ==
    /\ \E i \in 1..Len(medical_terms) : Contains(lower(q), medical_terms[i])
    /\ \A i \in 1..Len(medical_disclaimers) :
           ~Contains(lower(response), medical_disclaimers[i])

\* C24: check_response judges a response unsafe exactly when it matches an
\* actionable-harm pattern, or the query holds a medical term and the
\* response none of the disclaimer phrases; so a response to a medical
\* query with a disclaimer phrase and no harm pattern is safe, and a
\* safe-context token in the response or the query changes nothing.
C24_ResponseCheck ==
    pc = "response_checked" =>
        /\ response_verdict.is_safe =
               ~(MatchesHarm(state.answer) \/ LacksDisclaimer(state.answer, query))
        /\ (MatchesHarm(state.answer) /\ HasSafeContextToken(state.answer)) =>
               ~response_verdict.is_safe

\* A medical query with a safe-context token was answered with a
\* disclaimer, which is safe.
C24_Witness ==
    /\ pc = "response_checked"
    /\ query = EducationalHealthQuery
    /\ state.answer = DisclaimerAnswer
    /\ response_verdict.is_safe

\* ------------------------------------------------- sessions over a restart

\* C25: session state survives a restart: after a startup, the session of
\* the latest save that succeeded, the default session included, is in the
\* session map with the messages it held at that save.
C25_SessionsSurviveRestart ==
    (/\ op = Handler("startup", "default")
     /\ last_save # None
     /\ json_serializable(last_save.data)) =>
        /\ last_save.id \in DOMAIN chat_sessions
        /\ chat_sessions[last_save.id].messages = last_save.data.messages

\* C26: sessions never share turns: a step that adds a message to the
\* current session or clears it changes, of the session map, only the
\* current session's messages, and, of the files, only the current
\* session's; every other session keeps its messages, title and creation
\* time, in memory and in its file.
C26_SessionsIndependent ==
    [][(\/ op' = Handler("add_message", current_session)
        \/ op' = Handler("clear", current_session)) =>
           /\ current_session' = current_session
           /\ DOMAIN chat_sessions' = DOMAIN chat_sessions
           /\ \A x \in DOMAIN chat_sessions \ {current_session} :
                  chat_sessions'[x] = chat_sessions[x]
           /\ chat_sessions'[current_session].title = chat_sessions[current_session].title
           /\ chat_sessions'[current_session].created_at =
                  chat_sessions[current_session].created_at
           /\ DOMAIN disk' \subseteq DOMAIN disk \cup {current_session}
           /\ \A f \in DOMAIN disk \ {current_session} :
                  f \in DOMAIN disk' /\ disk'[f] = disk[f]]_vars

\* A message was added to session_1 while session_2, created later, was in
\* the session map and on file: session_2 and the default session hold no
\* message.
C26_Witness ==
    /\ op = Handler("add_message", "session_1")
    /\ chat_sessions["session_1"].messages = <<UserMessage>>
    /\ "session_2" \in DOMAIN chat_sessions
    /\ chat_sessions["session_2"].messages = <<>>
    /\ chat_sessions["session_2"].title = "Conversation 2"
    /\ chat_sessions["default"].messages = <<>>
    /\ "session_2" \in DOMAIN disk
    /\ disk["session_2"] = saved_file(chat_sessions["session_2"])

\* ------------------------------------------------------------- the cleanup

\* The sessions, the default one apart, created before the retention
\* window: by the record in memory, or by the record on file.
CreatedBefore(cutoff) ==
    {sid \in DOMAIN chat_sessions \ {"default"} : chat_sessions[sid].created_at < cutoff}
    \cup {sid \in DOMAIN disk \ {"default"} :
             /\ ~Malformed(disk[sid])
             /\ fromisoformat(disk[sid].created_at) < cutoff}

\* C27: cleanup_old_sessions(max_age_days) removes from the files and from
\* the session map exactly the sessions, the default one apart, created
\* before the retention window, and leaves every other session and file
\* unchanged.
C27_CleanupExact ==
    [][op' = Handler("cleanup_old_sessions", current_session) =>
          LET old == CreatedBefore(now - MaxAgeDays)
          IN  /\ DOMAIN chat_sessions' = DOMAIN chat_sessions \ old
              /\ DOMAIN disk' = DOMAIN disk \ old
              /\ \A x \in DOMAIN chat_sessions' : chat_sessions'[x] = chat_sessions[x]
              /\ \A f \in DOMAIN disk' : disk'[f] = disk[f]]_vars

\* ------------------------------------------------------ the shared instances

\* The getters a thread calls: ask_question calls get_pipeline, the
\* ingestion get_vectorstore, and any caller get_chat_model.
Getters == {"get_pipeline", "get_chat_model", "get_vectorstore"}

\* Thread t's record with its position and some locals changed.
Moved(t, position) == [threads[t] EXCEPT !.pc = position]

\* Where a thread goes on when get_chat_model() has returned: back to its
\* caller, or on in RAGPipeline.__init__ to get_vectorstore().
AfterChatModel(entry) == IF entry = "get_chat_model" THEN "return" ELSE "get_vectorstore"

\* Where a thread goes on when get_vectorstore() has returned: back to its
\* caller, or on in RAGPipeline.__init__ to the CrossEncoder.
AfterVectorstore(entry) == IF entry = "get_vectorstore" THEN "return" ELSE "CrossEncoder"

\* A thread calls one of the getters.
CallGetter(t, fn) ==
    /\ threads[t].pc = "idle"
    /\ threads[t].calls < MaxCalls
    /\ threads' = [threads EXCEPT ![t] =
                      [@ EXCEPT !.pc = fn, !.entry = fn, !.calls = @ + 1]]
    /\ UNCHANGED <<askVars, appVars, pipeline_instance, chat_model_cache, manager_cache,
                   manager_vectorstore, pipelines, built, returned>>

\* get_pipeline: the test of _pipeline_instance; when it is None,
\* RAGPipeline() is called, whose __init__ starts with get_chat_model().
GetPipelineCheck(t) ==
    /\ threads[t].pc = "get_pipeline"
    /\ threads' = [threads EXCEPT ![t] =
                      Moved(t, IF pipeline_instance # NoInstance
                               THEN "get_pipeline_return" ELSE "get_chat_model")]
    /\ UNCHANGED <<askVars, appVars, pipeline_instance, chat_model_cache, manager_cache,
                   manager_vectorstore, pipelines, built, returned>>

\* get_chat_model: lru_cache looks the call up; on a hit it returns the
\* cached instance, on a miss it calls the function.
ChatModelLookup(t) ==
    /\ threads[t].pc = "get_chat_model"
    /\ threads' = [threads EXCEPT ![t] =
                      IF chat_model_cache # NoInstance
                      THEN [@ EXCEPT !.llm = chat_model_cache,
                                     !.pc = AfterChatModel(threads[t].entry)]
                      ELSE Moved(t, "ExpertChatbot")]
    /\ UNCHANGED <<askVars, appVars, pipeline_instance, chat_model_cache, manager_cache,
                   manager_vectorstore, pipelines, built, returned>>

\* get_chat_model's body: ExpertChatbot() is constructed.
ChatModelConstruct(t) ==
    /\ threads[t].pc = "ExpertChatbot"
    /\ built' = [built EXCEPT !.chat_model = @ + 1]
    /\ threads' = [threads EXCEPT ![t] =
                      [@ EXCEPT !.llm = built.chat_model + 1, !.pc = "get_chat_model_store"]]
    /\ UNCHANGED <<askVars, appVars, pipeline_instance, chat_model_cache, manager_cache,
                   manager_vectorstore, pipelines, returned>>

\* lru_cache after the call: the result is stored unless the cache got the
\* key meanwhile, and the caller gets the result of its own call.
ChatModelStore(t) ==
    /\ threads[t].pc = "get_chat_model_store"
    /\ chat_model_cache' =
           IF chat_model_cache = NoInstance THEN threads[t].llm ELSE chat_model_cache
    /\ threads' = [threads EXCEPT ![t] = Moved(t, AfterChatModel(threads[t].entry))]
    /\ UNCHANGED <<askVars, appVars, pipeline_instance, manager_cache,
                   manager_vectorstore, pipelines, built, returned>>

\* get_vectorstore: get_vectorstore_manager() is looked up in its lru_cache.
ManagerLookup(t) ==
    /\ threads[t].pc = "get_vectorstore"
    /\ threads' = [threads EXCEPT ![t] =
                      IF manager_cache # NoInstance
                      THEN [@ EXCEPT !.manager = manager_cache,
                                     !.pc = "manager_get_vectorstore"]
                      ELSE Moved(t, "VectorStoreManager")]
    /\ UNCHANGED <<askVars, appVars, pipeline_instance, chat_model_cache, manager_cache,
                   manager_vectorstore, pipelines, built, returned>>

\* get_vectorstore_manager's body: VectorStoreManager() is constructed, its
\* _vectorstore None.
ManagerConstruct(t) ==
    /\ threads[t].pc = "VectorStoreManager"
    /\ built' = [built EXCEPT !.manager = @ + 1]
    /\ manager_vectorstore' = Append(manager_vectorstore, NoInstance)
    /\ threads' = [threads EXCEPT ![t] =
                      [@ EXCEPT !.manager = built.manager + 1,
                                !.pc = "get_vectorstore_manager_store"]]
    /\ UNCHANGED <<askVars, appVars, pipeline_instance, chat_model_cache, manager_cache,
                   pipelines, returned>>

\* lru_cache after the call of get_vectorstore_manager's body.
ManagerStore(t) ==
    /\ threads[t].pc = "get_vectorstore_manager_store"
    /\ manager_cache' =
           IF manager_cache = NoInstance THEN threads[t].manager ELSE manager_cache
    /\ threads' = [threads EXCEPT ![t] = Moved(t, "manager_get_vectorstore")]
    /\ UNCHANGED <<askVars, appVars, pipeline_instance, chat_model_cache,
                   manager_vectorstore, pipelines, built, returned>>

\* VectorStoreManager.get_vectorstore: the test of self._vectorstore.
VectorstoreCheck(t) ==
    /\ threads[t].pc = "manager_get_vectorstore"
    /\ threads' = [threads EXCEPT ![t] =
                      IF manager_vectorstore[threads[t].manager] # NoInstance
                      THEN [@ EXCEPT !.vs = manager_vectorstore[threads[t].manager],
                                     !.pc = AfterVectorstore(threads[t].entry)]
                      ELSE Moved(t, "FAISS")]
    /\ UNCHANGED <<askVars, appVars, pipeline_instance, chat_model_cache, manager_cache,
                   manager_vectorstore, pipelines, built, returned>>

\* VectorStoreManager.get_vectorstore: the index is loaded, or made and
\* saved, into the local vectorstore.
VectorstoreLoad(t) ==
    /\ threads[t].pc = "FAISS"
    /\ built' = [built EXCEPT !.vectorstore = @ + 1]
    /\ threads' = [threads EXCEPT ![t] =
                      [@ EXCEPT !.vectorstore = built.vectorstore + 1,
                                !.pc = "vectorstore_assign"]]
    /\ UNCHANGED <<askVars, appVars, pipeline_instance, chat_model_cache, manager_cache,
                   manager_vectorstore, pipelines, returned>>

\* VectorStoreManager.get_vectorstore: self._vectorstore = vectorstore.
VectorstoreAssign(t) ==
    /\ threads[t].pc = "vectorstore_assign"
    /\ manager_vectorstore' =
           [manager_vectorstore EXCEPT ![threads[t].manager] = threads[t].vectorstore]
    /\ threads' = [threads EXCEPT ![t] = Moved(t, "vectorstore_return")]
    /\ UNCHANGED <<askVars, appVars, pipeline_instance, chat_model_cache, manager_cache,
                   pipelines, built, returned>>

\* VectorStoreManager.get_vectorstore: return self._vectorstore.
VectorstoreReturn(t) ==
    /\ threads[t].pc = "vectorstore_return"
    /\ threads' = [threads EXCEPT ![t] =
                      [@ EXCEPT !.vs = manager_vectorstore[threads[t].manager],
                                !.pc = AfterVectorstore(threads[t].entry)]]
    /\ UNCHANGED <<askVars, appVars, pipeline_instance, chat_model_cache, manager_cache,
                   manager_vectorstore, pipelines, built, returned>>

\* The rest of RAGPipeline.__init__: with the chat model and the vector
\* store got and the cross-encoder loaded, the new pipeline is complete.
PipelineInit(t) ==
    /\ threads[t].pc = "CrossEncoder"
    /\ built' = [built EXCEPT !.pipeline = @ + 1]
    /\ pipelines' = Append(pipelines, [llm |-> threads[t].llm, vectorstore |-> threads[t].vs])
    /\ threads' = [threads EXCEPT ![t] =
                      [@ EXCEPT !.pipeline = built.pipeline + 1,
                                !.pc = "get_pipeline_assign"]]
    /\ UNCHANGED <<askVars, appVars, pipeline_instance, chat_model_cache, manager_cache,
                   manager_vectorstore, returned>>

\* get_pipeline: _pipeline_instance = RAGPipeline().
PipelineAssign(t) ==
    /\ threads[t].pc = "get_pipeline_assign"
    /\ pipeline_instance' = threads[t].pipeline
    /\ threads' = [threads EXCEPT ![t] = Moved(t, "get_pipeline_return")]
    /\ UNCHANGED <<askVars, appVars, chat_model_cache, manager_cache,
                   manager_vectorstore, pipelines, built, returned>>

\* get_pipeline: return _pipeline_instance.
PipelineReturn(t) ==
    /\ threads[t].pc = "get_pipeline_return"
    /\ returned' = returned \cup {[fn |-> "get_pipeline", instance |-> pipeline_instance]}
    /\ threads' = [threads EXCEPT ![t] = IdleThread(threads[t].calls)]
    /\ UNCHANGED <<askVars, appVars, pipeline_instance, chat_model_cache, manager_cache,
                   manager_vectorstore, pipelines, built>>

\* get_chat_model or get_vectorstore returns to the thread's own code.
GetterReturn(t) ==
    /\ threads[t].pc = "return"
    /\ returned' = returned \cup
           {[fn |-> threads[t].entry,
             instance |-> IF threads[t].entry = "get_chat_model"
                          THEN threads[t].llm ELSE threads[t].vs]}
    /\ threads' = [threads EXCEPT ![t] = IdleThread(threads[t].calls)]
    /\ UNCHANGED <<askVars, appVars, pipeline_instance, chat_model_cache, manager_cache,
                   manager_vectorstore, pipelines, built>>

InitSingletons ==
    /\ now = 0
    /\ settings = [top_k_results |-> DefaultTopK, reranking_threshold |-> DefaultThreshold]
    /\ query = <<>>
    /\ verdict = None
    /\ response_verdict = None
    /\ pc = "running"
    /\ state = None
    /\ scores = None
    /\ calls = NoCalls
    /\ ret = None
    /\ conversation_history = <<>>
    /\ graph_shares_state = FALSE
    /\ disk = <<>>
    /\ chat_sessions = load_all_sessions(disk, now)
    /\ current_session = "default"
    /\ session_counter = 1
    /\ loaded = None
    /\ last_save = None
    /\ op = None
    /\ NoSingletons

NextSingletons ==
    \E t \in Threads :
        \/ \E fn \in Getters : CallGetter(t, fn)
        \/ GetPipelineCheck(t)
        \/ ChatModelLookup(t)
        \/ ChatModelConstruct(t)
        \/ ChatModelStore(t)
        \/ ManagerLookup(t)
        \/ ManagerConstruct(t)
        \/ ManagerStore(t)
        \/ VectorstoreCheck(t)
        \/ VectorstoreLoad(t)
        \/ VectorstoreAssign(t)
        \/ VectorstoreReturn(t)
        \/ PipelineInit(t)
        \/ PipelineAssign(t)
        \/ PipelineReturn(t)
        \/ GetterReturn(t)

SpecSingletons == InitSingletons /\ [][NextSingletons]_vars

\* C28: the vector store, the chat model and the pipeline are constructed
\* at most once each, whatever the threads the first calls come from, and
\* every get_pipeline, get_vectorstore and get_chat_model call returns the
\* instance of its kind that was built first.
C28_Singletons ==
    /\ built.pipeline <= 1
    /\ built.chat_model <= 1
    /\ built.vectorstore <= 1
    /\ \A r \in returned : r.instance = 1

====
